---- MODULE Spec2Model ----
(***************************************************************************)
(* Model of the trading-system pipeline: the risk engine's rule pipeline   *)
(* (engines/risk/engine.py), the execution engine's order lifecycle        *)
(* (engines/execution/engine.py) and the MA crossover strategy's           *)
(* price-history buffer (engines/strategy/ma_crossover.py).                *)
(*                                                                         *)
(* Conventions.  Times are whole seconds.  Confidence is in percent        *)
(* (0.6 is 60).  Money is in whole dollars.  A formatted string is the     *)
(* sequence of the pieces the f-string joins, so "begins with" is a test   *)
(* on the head of the sequence.  Ids that the code draws with uuid4 are    *)
(* the next unused natural number.                                         *)
(***************************************************************************)
EXTENDS Integers, Sequences, FiniteSets, TLC

VARIABLES
    \* ---- RiskEngine fields
    rules,            \* self.rules: rule names in registration order
    is_active,        \* self.is_active
    recent_signals,   \* self.recent_signals
    \* ---- the event publisher's sink and the callers' view of the risk engine
    events,           \* event types handed to event_publisher, in order
    verdicts,         \* verdicts[k]: what validate_signal returned for signal k
    lastCall,         \* record of the latest validate_signal call
    rule_changes,     \* add_rule and remove_rule calls made so far
    \* ---- ExecutionEngine fields
    status,           \* self.status
    active_orders,    \* self.active_orders: the internal order ids tracked
    order_history,    \* self.order_history: order id -> status recorded
    stats,            \* self.stats
    \* ---- the tasks of the execution engine
    exec_tasks,       \* exec_tasks[s]: the execute_approved_trade call for signal s
    monitors,         \* monitors[o]: the _monitor_order task of order o
    cancel_tasks,     \* orders with a cancel_order call awaiting the broker
    shutdown_task,    \* the shutdown call
    initialized,      \* initialize has been called
    \* ---- the broker behind the adapter
    broker_connected, \* is_connected()
    place_calls,      \* place_calls[o]: the signal of the o-th place_order call
    broker_orders,    \* broker_orders[o]: the broker's status of order o
    \* ---- MovingAverageCrossoverStrategy fields
    short_period,     \* self.short_period
    long_period,      \* self.long_period
    strategy_active,  \* self.is_active of the strategy
    price_history,    \* self.price_history: symbol -> list of price data
    last_signal_time, \* self.last_signal_time: symbol -> timestamp, -1 if absent
    ticks,            \* per symbol, every tick taken into the history so far
    emitted,          \* what the latest process_market_event returned
    symbols,          \* self.symbols of the strategy
    \* ---- StrategyEngine, with the one strategy registered
    is_running,       \* self.is_running
    signal_events,    \* the signals published as SIGNAL_GENERATED events, in order
    feed,             \* the prices the caller feeds as ticks, in order
    last_event,       \* the latest event handed to StrategyEngine.process_market_event
    \* ---- AuditLogger
    _buffer,          \* self._buffer: the records appended and not yet cleared
    connection_pool,  \* self.connection_pool: "none", "open" or "closed"
    _flush_task,      \* self._flush_task: "none", "running" or "done"
    flush_calls,      \* flush_calls[c]: the _flush_buffer call of caller c
    audit_shutdown,   \* the shutdown call of the audit logger
    store,            \* store[id]: how many times record id was inserted
    logged,           \* records appended so far; a record's id is its number
    insert_failures,  \* bulk inserts that have failed so far
    \* ---- AlpacaBrokerAdapter
    vendor_status,    \* order.status as the vendor's API reports it
    reported,         \* what the get_order_status calls returned, in order
    \* ---- AIAdvisorService
    ai_enabled,       \* self.ai_enabled
    trade_ideas,      \* the ideas generate_trade_ideas has returned
    idea_events,      \* the events the advisor handed to event_publisher
    idea_actions,     \* the approve / reject calls made, as <<idea id, action>>
    idea_calls,       \* generate_trade_ideas calls made
    minted_signals,   \* the TradeSignals the advisor has created, by idea id
    \* ---- StrategyEngine with several strategies
    strategies,       \* self.strategies, in registration order
    last_op,          \* the latest registry operation and what preceded it
    registry_ops,     \* registry operations made so far
    dispatch,         \* the latest process_market_event call over the registry
    \* ---- TradeSignal
    constructed,      \* the TradeSignal constructions attempted, in order
    \* ---- what the execution engine's callers and its broker have seen
    late_calls,       \* the kinds of broker call issued after shutdown has disconnected
    last_cancel,      \* the latest cancel_order call that returned, and its result
    cancel_acked,     \* orders the broker has cancelled for a call not yet returned
    tallies           \* <<order, counter, k>>: the k-th increment of counter for order

riskVars == <<rules, is_active, recent_signals, events, verdicts, lastCall,
              rule_changes>>

execVars == <<status, active_orders, order_history, stats, exec_tasks,
              monitors, cancel_tasks, shutdown_task, initialized,
              broker_connected, place_calls, broker_orders>>

maVars == <<short_period, long_period, strategy_active, price_history,
            last_signal_time, ticks, emitted, symbols>>

seVars == <<is_running, signal_events, feed, last_event>>

auditVars == <<_buffer, connection_pool, _flush_task, flush_calls, audit_shutdown,
               store, logged, insert_failures>>

alpacaVars == <<vendor_status, reported>>

aiVars == <<ai_enabled, trade_ideas, idea_events, idea_actions, idea_calls,
            minted_signals>>

registryVars == <<strategies, last_op, registry_ops, dispatch>>

modelVars == <<constructed>>

\* the variables of the parts added last: no action of another part
\* changes them
traceVars == <<late_calls, last_cancel, cancel_acked, tallies>>

extVars == <<registryVars, modelVars, traceVars>>

\* the variables of the other parts that the execution engine's calls leave alone
restVars == <<seVars, auditVars, alpacaVars, aiVars, registryVars, modelVars>>

otherVars == <<seVars, auditVars, alpacaVars, aiVars, extVars>>

vars == <<riskVars, execVars, maVars, otherVars>>

-----------------------------------------------------------------------------
\* Bounds of the model

\* validate_signal calls explored in one behaviour
MaxSignals == 2

\* add_rule and remove_rule calls explored in one behaviour
MaxRuleChanges == 1

\* validate_signal calls explored where the recent-signals buffer fills up
MaxBufferCalls == 1010

\* of these, the first ones may carry a signal of low confidence
BufferWarmup == 4

\* market events taken into the price history
MaxTicks == 13

\* seconds between two market events
TickSeconds == 150

\* audit records logged
MaxAuditRecords == 3

\* bulk inserts that fail
MaxInsertFailures == 2

\* records logged where the buffer is filled to its size
MaxFullRecords == 102

\* registry operations of the strategy engine
MaxRegistryOps == 4

\* signals published before the last market event over the registry
MaxPublished == 1

\* TradeSignal constructions
MaxConstructions == 2

\* get_order_status calls on the broker adapter
MaxStatusCalls == 2

\* generate_trade_ideas calls
MaxIdeaCalls == 2

\* sections in one reply of the language model
MaxSections == 4

\* get_order_status polls of one monitor task explored where several
\* orders are in flight
MaxPolls == 2

\* market events the strategy takes through the strategy engine
MaxEngineTicks == 4

-----------------------------------------------------------------------------
\* Program constants

max_checks == 300

history_slack == 10

_buffer_size == 100

signal_cooldown == 5 * 60

\* min_confidence of the strategy, in ten-thousandths
strategy_min_confidence == 6000

\* the strategy's default short_period and long_period
DefaultPeriods == <<20, 50>>

\* the symbols the strategy is constructed with
StrategySymbols == {"AAPL", "MSFT"}

max_position_pct == 5
max_positions == 2
min_confidence == 60
time_window_minutes == 1
estimated_price == 100
max_recent_signals == 1000
market_open_hour == 9
market_close_hour == 16
first_weekend_day == 5

DefaultRules ==
    <<"max_position_size", "max_positions_per_symbol", "min_confidence",
      "duplicate_signal", "market_hours">>

DefaultRuleNames == {DefaultRules[i] : i \in 1..Len(DefaultRules)}

\* a RiskRule subclass registered through add_rule; what its validate
\* does is an input of each call
CustomRule == "custom"

RuleNames == DefaultRuleNames \cup {CustomRule}

time_window == time_window_minutes * 60

-----------------------------------------------------------------------------
\* Sequence helpers

\* Python's [r for r in s if r != x]
Without(s, x) ==
    LET F[i \in 0..Len(s)] ==
            IF i = 0 THEN <<>>
            ELSE IF s[i] # x THEN Append(F[i - 1], s[i]) ELSE F[i - 1]
    IN F[Len(s)]

\* Python's s[-n:] for n >= 1
LastN(s, n) == IF Len(s) <= n THEN s ELSE SubSeq(s, Len(s) - n + 1, Len(s))

\* Python's floor division a // b for b > 0 and any integer a
FloorDiv(a, b) == IF a >= 0 THEN a \div b ELSE -((-a + b - 1) \div b)

\* Python's s[k:] for a negative k
SliceFromNeg(s, k) == LastN(s, -k)

-----------------------------------------------------------------------------
\* The five rule classes.  Each returns [res, reason]; res is "pass",
\* "fail" or "raise" (the validate coroutine threw).

Pass == [res |-> "pass", reason |-> "None"]
Fail(text) == [res |-> "fail", reason |-> text]
Raise(text) == [res |-> "raise", reason |-> text]

\* position_value / account.equity is compared with max_position_pct: the
\* quotient does not exist for equity 0 and is negative for negative equity
MaxPositionSizeRule(signal, account) ==
    IF account.equity = 0
    THEN Raise("decimal.DivisionByZero")
    ELSE IF /\ account.equity > 0
            /\ signal.qty * estimated_price * 100 > max_position_pct * account.equity
         THEN Fail("Position size exceeds maximum of account equity")
         ELSE Pass

MaxPositionsPerSymbolRule(signal, positions) ==
    LET symbol_positions ==
            {i \in 1..Len(positions) :
                positions[i].symbol = signal.symbol /\ positions[i].qty # 0}
    IN IF Cardinality(symbol_positions) >= max_positions
       THEN Fail("Symbol already has positions")
       ELSE Pass

MinConfidenceRule(signal) ==
    IF signal.confidence < min_confidence
    THEN Fail("Signal confidence below minimum")
    ELSE Pass

\* DuplicateSignalRule with the time window forgotten
DuplicateSignalRuleNoWindow(signal, recent) ==
    IF \E i \in 1..Len(recent) :
          /\ recent[i].symbol = signal.symbol
          /\ recent[i].side = signal.side
          /\ recent[i].created_at > signal.created_at
    THEN Fail("Duplicate signal within minutes")
    ELSE Pass

\* DuplicateSignalRule counting a signal created exactly time_window earlier
DuplicateSignalRuleInclusive(signal, recent) ==
    LET cutoff_time == signal.created_at - time_window
    IN IF \E i \in 1..Len(recent) :
              /\ recent[i].symbol = signal.symbol
              /\ recent[i].side = signal.side
              /\ recent[i].created_at >= cutoff_time
       THEN Fail("Duplicate signal within minutes")
       ELSE Pass

DuplicateSignalRule(signal, recent) ==
    LET cutoff_time == signal.created_at - time_window
    IN IF \E i \in 1..Len(recent) :
              /\ recent[i].symbol = signal.symbol
              /\ recent[i].side = signal.side
              /\ recent[i].created_at > cutoff_time
       THEN Fail("Duplicate signal within minutes")
       ELSE Pass

\* MarketHoursRule without the opening hour
MarketHoursRuleNoOpening(now) ==
    IF now.weekday >= first_weekend_day
    THEN Fail("Market is closed (weekend)")
    ELSE IF now.hour >= market_close_hour
         THEN Fail("Market is closed (outside trading hours)")
         ELSE Pass

MarketHoursRule(now) ==
    IF now.weekday >= first_weekend_day
    THEN Fail("Market is closed (weekend)")
    ELSE IF now.hour < market_open_hour \/ now.hour >= market_close_hour
         THEN Fail("Market is closed (outside trading hours)")
         ELSE Pass

\* rule.validate(signal, account, positions, self.recent_signals) for the
\* rule registered under `name`; `custom` is what a custom rule does
RuleValidate(name, signal, account, positions, recent, now, custom) ==
    CASE name = "max_position_size" -> MaxPositionSizeRule(signal, account)
      [] name = "max_positions_per_symbol" -> MaxPositionsPerSymbolRule(signal, positions)
      [] name = "min_confidence" -> MinConfidenceRule(signal)
      [] name = "duplicate_signal" -> DuplicateSignalRule(signal, recent)
      [] name = "market_hours" -> MarketHoursRule(now)
      [] OTHER -> custom

-----------------------------------------------------------------------------
\* RiskEngine

\* The for loop of validate_signal over rs = self.rules from index i on:
\* the rules it evaluated, and how it ended.
RECURSIVE RunRules(_, _, _, _, _, _, _, _, _)
RunRules(rs, i, signal, account, positions, recent, now, custom, evaluated) ==
    IF i > Len(rs)
    THEN [approved |-> TRUE, reason |-> <<>>, evaluated |-> evaluated,
          publish |-> <<"SIGNAL_APPROVED">>]
    ELSE LET r == RuleValidate(rs[i], signal, account, positions, recent, now, custom)
             ev == Append(evaluated, rs[i])
         IN CASE r.res = "raise" ->
                    [approved |-> FALSE,
                     reason |-> <<"Risk validation error: ", r.reason>>,
                     evaluated |-> ev, publish |-> <<>>]
              [] r.res = "fail" ->
                    [approved |-> FALSE,
                     reason |-> <<rs[i], ": ", r.reason>>,
                     evaluated |-> ev, publish |-> <<"SIGNAL_REJECTED">>]
              [] OTHER ->
                    RunRules(rs, i + 1, signal, account, positions, recent,
                             now, custom, ev)

\* RunRules with an exception in a rule swallowed: the loop goes on
RECURSIVE RunRulesSwallow(_, _, _, _, _, _, _, _, _)
RunRulesSwallow(rs, i, signal, account, positions, recent, now, custom, evaluated) ==
    IF i > Len(rs)
    THEN [approved |-> TRUE, reason |-> <<>>, evaluated |-> evaluated,
          publish |-> <<"SIGNAL_APPROVED">>]
    ELSE LET r == RuleValidate(rs[i], signal, account, positions, recent, now, custom)
             ev == Append(evaluated, rs[i])
         IN IF r.res = "fail"
            THEN [approved |-> FALSE, reason |-> <<rs[i], ": ", r.reason>>,
                  evaluated |-> ev, publish |-> <<"SIGNAL_REJECTED">>]
            ELSE RunRulesSwallow(rs, i + 1, signal, account, positions, recent,
                                 now, custom, ev)

\* _add_recent_signal without the trim
_add_recent_signal_untrimmed(recent, signal) == Append(recent, signal)

\* _add_recent_signal keeping the older half of the buffer
_add_recent_signal_keeps_oldest(recent, signal) ==
    LET appended == Append(recent, signal)
    IN IF Len(appended) > max_recent_signals
       THEN SubSeq(appended, 1, max_recent_signals \div 2)
       ELSE appended

_add_recent_signal(recent, signal) ==
    LET appended == Append(recent, signal)
    IN IF Len(appended) > max_recent_signals
       THEN SliceFromNeg(appended, FloorDiv(-max_recent_signals, 2))
       ELSE appended

\* validate_signal with the loop starting at the second rule
ValidateResultSkipFirst(signal, account, positions, now, custom) ==
    IF ~is_active
    THEN [approved |-> FALSE, reason |-> <<"Risk engine is disabled">>,
          evaluated |-> <<>>, publish |-> <<>>]
    ELSE RunRules(rules, 2, signal, account, positions, recent_signals, now,
                  custom, <<>>)

\* validate_signal without the is_active gate
ValidateResultNoGate(signal, account, positions, now, custom) ==
    RunRules(rules, 1, signal, account, positions, recent_signals, now,
             custom, <<>>)

\* validate_signal with exceptions in rules swallowed
ValidateResultSwallow(signal, account, positions, now, custom) ==
    IF ~is_active
    THEN [approved |-> FALSE, reason |-> <<"Risk engine is disabled">>,
          evaluated |-> <<>>, publish |-> <<>>]
    ELSE RunRulesSwallow(rules, 1, signal, account, positions, recent_signals,
                         now, custom, <<>>)

\* validate_signal appending the signal to the buffer before the rules run
ValidateResultAppendFirst(signal, account, positions, now, custom) ==
    IF ~is_active
    THEN [approved |-> FALSE, reason |-> <<"Risk engine is disabled">>,
          evaluated |-> <<>>, publish |-> <<>>]
    ELSE RunRules(rules, 1, signal, account, positions,
                  Append(recent_signals, signal), now, custom, <<>>)

\* the whole of validate_signal, as a function of the engine's state
ValidateResult(signal, account, positions, now, custom) ==
    IF ~is_active
    THEN [approved |-> FALSE, reason |-> <<"Risk engine is disabled">>,
          evaluated |-> <<>>, publish |-> <<>>]
    ELSE RunRules(rules, 1, signal, account, positions, recent_signals, now,
                  custom, <<>>)

validate_signal(signal, account, positions, now, custom) ==
    LET res == ValidateResult(signal, account, positions, now, custom)
    IN /\ signal.id = Len(verdicts) + 1
       /\ recent_signals' = IF res.approved
                            THEN _add_recent_signal(recent_signals, signal)
                            ELSE recent_signals
       /\ events' = events \o res.publish
       /\ verdicts' = Append(verdicts,
                             [approved |-> res.approved, reason |-> res.reason])
       /\ lastCall' = [n |-> signal.id,
                       \* what the call was given and what it found
                       signal |-> signal, account |-> account,
                       positions |-> positions, now |-> now, custom |-> custom,
                       rules |-> rules, active |-> is_active,
                       recent |-> recent_signals,
                       \* what it returned and did
                       approved |-> res.approved, reason |-> res.reason,
                       evaluated |-> res.evaluated, published |-> res.publish]
       /\ UNCHANGED <<rules, is_active, rule_changes, execVars, maVars, otherVars>>

add_rule(name) ==
    /\ rule_changes < MaxRuleChanges
    /\ rule_changes' = rule_changes + 1
    /\ rules' = Append(rules, name)
    /\ UNCHANGED <<is_active, recent_signals, events, verdicts, lastCall, execVars,
                   maVars, otherVars>>

remove_rule(rule_name) ==
    /\ rule_changes < MaxRuleChanges
    /\ rule_changes' = rule_changes + 1
    /\ rules' = Without(rules, rule_name)
    /\ UNCHANGED <<is_active, recent_signals, events, verdicts, lastCall, execVars,
                   maVars, otherVars>>

activate ==
    /\ is_active' = TRUE
    /\ UNCHANGED <<rules, recent_signals, events, verdicts, lastCall, rule_changes,
                   execVars, maVars, otherVars>>

deactivate ==
    /\ is_active' = FALSE
    /\ UNCHANGED <<rules, recent_signals, events, verdicts, lastCall, rule_changes,
                   execVars, maVars, otherVars>>

-----------------------------------------------------------------------------
\* ExecutionEngine.  An internal order id is the number of the place_order
\* call that made it, and so is the broker's id of the order.

Terminal == {"filled", "cancelled", "rejected"}

NoMonitor == [pc |-> "absent", check_count |-> 0, observed |-> "none",
              timed_out |-> FALSE]

Bump(counter) == [stats EXCEPT ![counter] = @ + 1]

_track_order(order_id) == active_orders \cup {order_id}

\* _untrack_order that leaves the order in the table
_untrack_order_kept(order_id) == active_orders

_untrack_order(order_id) == active_orders \ {order_id}

\* initialize: connect to the broker; a failed connect leaves status ERROR
initialize(connected) ==
    /\ ~initialized
    /\ initialized' = TRUE
    /\ broker_connected' = connected
    /\ status' = IF connected THEN status ELSE "error"
    /\ UNCHANGED <<riskVars, maVars, otherVars, active_orders, order_history, stats, exec_tasks,
                   monitors, cancel_tasks, shutdown_task, place_calls,
                   broker_orders>>

\* a call of execute_approved_trade: where it stands, and the status it
\* found on entry
NoTask == [pc |-> "none", entry_status |-> "none"]

\* the broker calls issued after the disconnect, once the engine has called
\* `kind`
Issued(kind) ==
    IF shutdown_task.pc = "done"
    THEN late_calls \cup {kind}
    ELSE late_calls

\* the increments made per order, once `counter` is incremented for order o
Tally(o, counter) ==
    tallies \cup {<<o, counter,
                    1 + Cardinality({t \in tallies : t[1] = o /\ t[2] = counter})>>}

\* execute_approved_trade ignoring the status it finds
execute_approved_trade_unguarded(s) ==
    /\ s \in 1..Len(verdicts)
    /\ verdicts[s].approved
    /\ exec_tasks[s].pc = "none"
    /\ status' = "processing"
    /\ place_calls' = Append(place_calls, s)
    /\ broker_orders' = Append(broker_orders, "none")
    /\ monitors' = Append(monitors, NoMonitor)
    /\ exec_tasks' = [exec_tasks EXCEPT ![s] =
                        [pc |-> IF broker_connected THEN "placing" ELSE "failing",
                         entry_status |-> status]]
    /\ late_calls' = Issued("place_order")
    /\ UNCHANGED <<riskVars, maVars, restVars, active_orders, order_history, stats, cancel_tasks,
                   shutdown_task, initialized, broker_connected,
                   last_cancel, cancel_acked, tallies>>

\* execute_approved_trade up to its await of broker.place_order: the caller
\* hands over the ApprovedTrade validate_signal returned for signal s
execute_approved_trade(s) ==
    /\ s \in 1..Len(verdicts)
    /\ verdicts[s].approved
    /\ exec_tasks[s].pc = "none"
    /\ IF status # "idle"
       THEN /\ exec_tasks' = [exec_tasks EXCEPT ![s] =
                                [pc |-> "refused", entry_status |-> status]]
            /\ UNCHANGED <<status, place_calls, broker_orders, monitors,
                           late_calls>>
       ELSE /\ status' = "processing"
            /\ place_calls' = Append(place_calls, s)
            /\ broker_orders' = Append(broker_orders, "none")
            /\ monitors' = Append(monitors, NoMonitor)
            /\ exec_tasks' = [exec_tasks EXCEPT ![s] =
                                [pc |-> IF broker_connected THEN "placing"
                                                            ELSE "failing",
                                 entry_status |-> status]]
            /\ late_calls' = Issued("place_order")
    /\ UNCHANGED <<riskVars, maVars, restVars, active_orders, order_history, stats, cancel_tasks,
                   shutdown_task, initialized, broker_connected,
                   last_cancel, cancel_acked, tallies>>

\* the order the place_order call for signal s made
OrderOf(s) == CHOOSE o \in 1..Len(place_calls) : place_calls[o] = s

\* execute_approved_trade that does not store the order in order_history
place_order_returns_unrecorded(s, result) ==
    LET o == OrderOf(s)
    IN /\ exec_tasks[s].pc = "placing"
       /\ exec_tasks' = [exec_tasks EXCEPT ![s].pc = "done"]
       /\ IF result = "submitted"
          THEN /\ active_orders' = _track_order(o)
               /\ stats' = Bump("orders_submitted")
               /\ broker_orders' = [broker_orders EXCEPT ![o] = "submitted"]
               /\ monitors' = [monitors EXCEPT ![o].pc = "sleeping"]
          ELSE /\ stats' = Bump("orders_rejected")
               /\ UNCHANGED <<active_orders, broker_orders, monitors>>
       /\ order_history' = order_history
       /\ status' = "idle"
       /\ UNCHANGED <<riskVars, maVars, otherVars, cancel_tasks, shutdown_task, initialized,
                      broker_connected, place_calls>>

\* execute_approved_trade from the return of broker.place_order on;
\* `result` is the status of the OrderEvent returned
place_order_returns(s, result) ==
    LET o == OrderOf(s)
    IN /\ exec_tasks[s].pc = "placing"
       /\ exec_tasks' = [exec_tasks EXCEPT ![s].pc = "done"]
       /\ IF result = "submitted"
          THEN /\ active_orders' = _track_order(o)
               /\ stats' = Bump("orders_submitted")
               /\ broker_orders' = [broker_orders EXCEPT ![o] = "submitted"]
               /\ monitors' = [monitors EXCEPT ![o].pc = "sleeping"]
          ELSE /\ stats' = Bump("orders_rejected")
               /\ UNCHANGED <<active_orders, broker_orders, monitors>>
       /\ order_history' = order_history \cup {[order_id |-> o, status |-> result]}
       /\ status' = "idle"
       /\ UNCHANGED <<riskVars, maVars, otherVars, cancel_tasks, shutdown_task, initialized,
                      broker_connected, place_calls>>

\* execute_approved_trade when broker.place_order raises, without the
\* finally clause
place_order_raises_no_finally(s) ==
    /\ exec_tasks[s].pc = "failing"
    /\ exec_tasks' = [exec_tasks EXCEPT ![s].pc = "raised"]
    /\ stats' = Bump("orders_rejected")
    /\ UNCHANGED <<riskVars, maVars, otherVars, status, active_orders, order_history, monitors,
                   cancel_tasks, shutdown_task, initialized, broker_connected, place_calls,
                   broker_orders>>

\* execute_approved_trade when broker.place_order raises (not connected):
\* the call ends in "raised"
place_order_raises(s) ==
    /\ exec_tasks[s].pc = "failing"
    /\ exec_tasks' = [exec_tasks EXCEPT ![s].pc = "raised"]
    /\ stats' = Bump("orders_rejected")
    /\ status' = "idle"
    /\ UNCHANGED <<riskVars, maVars, otherVars, active_orders, order_history, monitors, cancel_tasks,
                   shutdown_task, initialized, broker_connected, place_calls,
                   broker_orders>>

\* _monitor_order: the sleep ends, check_count goes up and
\* get_order_status is called; `cap` bounds the polls explored
monitor_polls(o, cap) ==
    /\ monitors[o].pc = "sleeping"
    /\ monitors[o].check_count < cap
    /\ monitors' = [monitors EXCEPT ![o].pc = "polling",
                                    ![o].check_count = @ + 1]
    /\ late_calls' = Issued("get_order_status")
    /\ UNCHANGED <<riskVars, maVars, restVars, last_cancel, cancel_acked, tallies, status, active_orders, order_history, stats,
                   exec_tasks, cancel_tasks, shutdown_task, initialized,
                   broker_connected, place_calls, broker_orders>>

\* the monitor once its loop is left with the given check_count
MonitorDone(m, seen) ==
    [m EXCEPT !.pc = "done", !.observed = seen,
              !.timed_out = (m.check_count >= max_checks)]

\* _monitor_order going on polling after a PARTIALLY_FILLED status
poll_returns_polls_on(o, reply) ==
    LET m == monitors[o]
    IN /\ m.pc = "polling"
       /\ reply = IF broker_connected THEN reply ELSE "error"
       /\ reply \in {broker_orders[o], "error"}
       /\ CASE reply = "filled" ->
                 /\ stats' = Bump("orders_filled")
                 /\ tallies' = Tally(o, "orders_filled")
                 /\ active_orders' = _untrack_order(o)
                 /\ monitors' = [monitors EXCEPT ![o] = MonitorDone(m, reply)]
            [] reply \in {"cancelled", "rejected"} ->
                 /\ stats' = Bump(IF reply = "cancelled" THEN "orders_cancelled"
                                                         ELSE "orders_rejected")
                 /\ tallies' = Tally(o, IF reply = "cancelled" THEN "orders_cancelled"
                                                               ELSE "orders_rejected")
                 /\ active_orders' = _untrack_order(o)
                 /\ monitors' = [monitors EXCEPT ![o] = MonitorDone(m, reply)]
            [] reply = "error" ->
                 /\ monitors' = [monitors EXCEPT ![o] = MonitorDone(m, reply)]
                 /\ UNCHANGED <<stats, active_orders, tallies>>
            [] OTHER ->
                 /\ monitors' = [monitors EXCEPT ![o] =
                        IF m.check_count < max_checks
                        THEN [m EXCEPT !.pc = "sleeping"]
                        ELSE MonitorDone(m, "none")]
                 /\ UNCHANGED <<stats, active_orders, tallies>>
       /\ UNCHANGED <<riskVars, maVars, restVars, late_calls, last_cancel, cancel_acked, status, order_history, exec_tasks, cancel_tasks,
                      shutdown_task, initialized, broker_connected, place_calls,
                      broker_orders>>

\* _monitor_order from the return of get_order_status on; `reply` is the
\* status returned, or "error" when the call raised
poll_returns(o, reply) ==
    LET m == monitors[o]
    IN /\ m.pc = "polling"
       /\ reply = IF broker_connected THEN reply ELSE "error"
       /\ reply \in {broker_orders[o], "error"}
       /\ CASE reply \in {"filled", "partially_filled"} ->
                 \* _handle_order_fill
                 /\ stats' = Bump("orders_filled")
                 /\ tallies' = Tally(o, "orders_filled")
                 /\ active_orders' = IF reply = "filled"
                                     THEN _untrack_order(o) ELSE active_orders
                 /\ monitors' = [monitors EXCEPT ![o] = MonitorDone(m, reply)]
            [] reply \in {"cancelled", "rejected"} ->
                 \* _handle_order_cancellation
                 /\ stats' = Bump(IF reply = "cancelled" THEN "orders_cancelled"
                                                         ELSE "orders_rejected")
                 /\ tallies' = Tally(o, IF reply = "cancelled" THEN "orders_cancelled"
                                                               ELSE "orders_rejected")
                 /\ active_orders' = _untrack_order(o)
                 /\ monitors' = [monitors EXCEPT ![o] = MonitorDone(m, reply)]
            [] reply = "error" ->
                 /\ monitors' = [monitors EXCEPT ![o] = MonitorDone(m, reply)]
                 /\ UNCHANGED <<stats, active_orders, tallies>>
            [] OTHER ->
                 /\ monitors' = [monitors EXCEPT ![o] =
                        IF m.check_count < max_checks
                        THEN [m EXCEPT !.pc = "sleeping"]
                        ELSE MonitorDone(m, "none")]
                 /\ UNCHANGED <<stats, active_orders, tallies>>
       /\ UNCHANGED <<riskVars, maVars, restVars, late_calls, last_cancel, cancel_acked, status, order_history, exec_tasks, cancel_tasks,
                      shutdown_task, initialized, broker_connected, place_calls,
                      broker_orders>>

\* what the broker can answer to cancel_order for order o: "cancelled", or
\* "error" when the call raises (not connected, or the order cannot be
\* cancelled any more)
CancelReplies(o) ==
    IF \/ o \in cancel_acked
       \/ broker_connected /\ broker_orders[o] \in {"submitted", "partially_filled"}
    THEN {"cancelled", "error"}
    ELSE {"error"}

\* the broker cancels order o for a cancel_order call that is awaiting its
\* answer
broker_cancels(o) ==
    /\ \/ o \in cancel_tasks
       \/ shutdown_task.pc = "cancelling" /\ Head(shutdown_task.todo) = o
    /\ o \notin cancel_acked
    /\ broker_connected
    /\ broker_orders[o] \in {"submitted", "partially_filled"}
    /\ broker_orders' = [broker_orders EXCEPT ![o] = "cancelled"]
    /\ cancel_acked' = cancel_acked \cup {o}
    /\ UNCHANGED <<riskVars, maVars, restVars, late_calls, last_cancel, tallies,
                   status, active_orders, order_history, stats, exec_tasks,
                   monitors, cancel_tasks, shutdown_task, initialized,
                   broker_connected, place_calls>>

\* cancel_order up to its await of broker.cancel_order; for an id that is
\* not in active_orders it returns False at once
cancel_order(o) ==
    /\ o \notin cancel_tasks
    /\ IF o \notin active_orders
       THEN /\ last_cancel' = [known |-> FALSE, reply |-> "none",
                               result |-> FALSE]
            /\ UNCHANGED <<cancel_tasks, late_calls>>
       ELSE /\ cancel_tasks' = cancel_tasks \cup {o}
            /\ late_calls' = Issued("cancel_order")
            /\ UNCHANGED last_cancel
    /\ UNCHANGED <<riskVars, maVars, restVars, cancel_acked, tallies, status,
                   active_orders, order_history, stats,
                   exec_tasks, monitors, shutdown_task, initialized,
                   broker_connected, place_calls, broker_orders>>

\* cancel_order counting a cancellation whatever the broker answers
cancel_returns_counts_always(o, reply) ==
    /\ o \in cancel_tasks
    /\ reply \in CancelReplies(o)
    /\ cancel_tasks' = cancel_tasks \ {o}
    /\ cancel_acked' = cancel_acked \ {o}
    /\ last_cancel' = [known |-> TRUE, reply |-> reply,
                       result |-> reply = "cancelled"]
    /\ IF TRUE
       THEN /\ broker_orders' = [broker_orders EXCEPT ![o] =
                                    IF reply = "cancelled" THEN "cancelled" ELSE @]
            /\ active_orders' = _untrack_order(o)
            /\ stats' = Bump("orders_cancelled")
            /\ tallies' = Tally(o, "orders_cancelled")
       ELSE UNCHANGED <<broker_orders, active_orders, stats, tallies>>
    /\ UNCHANGED <<riskVars, maVars, restVars, late_calls, status, order_history,
                   exec_tasks, monitors, shutdown_task, initialized,
                   broker_connected, place_calls>>

\* cancel_order from the return of broker.cancel_order on
cancel_returns(o, reply) ==
    /\ o \in cancel_tasks
    /\ reply \in CancelReplies(o)
    /\ cancel_tasks' = cancel_tasks \ {o}
    /\ cancel_acked' = cancel_acked \ {o}
    /\ last_cancel' = [known |-> TRUE, reply |-> reply,
                       result |-> reply = "cancelled"]
    /\ IF reply = "cancelled"
       THEN /\ broker_orders' = [broker_orders EXCEPT ![o] = "cancelled"]
            /\ active_orders' = _untrack_order(o)
            /\ stats' = Bump("orders_cancelled")
            /\ tallies' = Tally(o, "orders_cancelled")
       ELSE UNCHANGED <<broker_orders, active_orders, stats, tallies>>
    /\ UNCHANGED <<riskVars, maVars, restVars, late_calls, status, order_history,
                   exec_tasks, monitors, shutdown_task, initialized,
                   broker_connected, place_calls>>

\* list(self.active_orders.keys()): the keys in insertion order
RECURSIVE KeyList(_)
KeyList(keys) ==
    IF keys = {} THEN <<>>
    ELSE LET k == CHOOSE x \in keys : \A y \in keys : x <= y
         IN <<k>> \o KeyList(keys \ {k})

\* shutdown up to its first await
shutdown ==
    /\ shutdown_task.pc = "none"
    /\ shutdown_task' = [pc |-> "loop", todo |-> KeyList(active_orders)]
    /\ UNCHANGED <<riskVars, maVars, otherVars, status, active_orders, order_history, stats,
                   exec_tasks, monitors, cancel_tasks, initialized,
                   broker_connected, place_calls, broker_orders>>

\* shutdown's loop: cancel_order for the next order of the list, up to
\* its await of broker.cancel_order (an order no longer active returns at once)
shutdown_cancels ==
    /\ shutdown_task.pc = "loop"
    /\ shutdown_task.todo # <<>>
    /\ shutdown_task' =
          IF Head(shutdown_task.todo) \in active_orders
          THEN [shutdown_task EXCEPT !.pc = "cancelling"]
          ELSE [shutdown_task EXCEPT !.todo = Tail(@)]
    /\ UNCHANGED <<riskVars, maVars, otherVars, status, active_orders, order_history, stats,
                   exec_tasks, monitors, cancel_tasks, initialized,
                   broker_connected, place_calls, broker_orders>>

\* shutdown's cancel_order from the return of broker.cancel_order on
shutdown_cancel_returns(reply) ==
    LET o == Head(shutdown_task.todo)
    IN /\ shutdown_task.pc = "cancelling"
       /\ reply \in CancelReplies(o)
       /\ shutdown_task' = [pc |-> "loop", todo |-> Tail(shutdown_task.todo)]
       /\ cancel_acked' = cancel_acked \ {o}
       /\ IF reply = "cancelled"
          THEN /\ broker_orders' = [broker_orders EXCEPT ![o] = "cancelled"]
               /\ active_orders' = _untrack_order(o)
               /\ stats' = Bump("orders_cancelled")
               /\ tallies' = Tally(o, "orders_cancelled")
          ELSE UNCHANGED <<broker_orders, active_orders, stats, tallies>>
       /\ UNCHANGED <<riskVars, maVars, restVars, late_calls, last_cancel, status, order_history, exec_tasks, monitors,
                      cancel_tasks, initialized, broker_connected, place_calls>>

\* shutdown after the loop: disconnect the broker, status IDLE
shutdown_disconnects ==
    /\ shutdown_task.pc = "loop"
    /\ shutdown_task.todo = <<>>
    /\ shutdown_task' = [shutdown_task EXCEPT !.pc = "done"]
    /\ broker_connected' = FALSE
    /\ status' = "idle"
    /\ UNCHANGED <<riskVars, maVars, otherVars, active_orders, order_history, stats, exec_tasks,
                   monitors, cancel_tasks, initialized, place_calls,
                   broker_orders>>

\* the broker moves an order on
BrokerTransitions ==
    {<<"submitted", "partially_filled">>, <<"submitted", "filled">>,
     <<"submitted", "cancelled">>, <<"submitted", "rejected">>,
     <<"partially_filled", "filled">>, <<"partially_filled", "cancelled">>}

broker_moves(o, to) ==
    /\ <<broker_orders[o], to>> \in BrokerTransitions
    /\ broker_orders' = [broker_orders EXCEPT ![o] = to]
    /\ UNCHANGED <<riskVars, maVars, otherVars, status, active_orders, order_history, stats,
                   exec_tasks, monitors, cancel_tasks, shutdown_task,
                   initialized, broker_connected, place_calls>>

-----------------------------------------------------------------------------
\* MovingAverageCrossoverStrategy.  Prices are whole numbers, timestamps are
\* seconds, and the moving averages are compared as fractions.

RECURSIVE Sum(_)
Sum(s) == IF s = <<>> THEN 0 ELSE Head(s) + Sum(Tail(s))

Prices(history) == [i \in 1..Len(history) |-> history[i].price]

Min(a, b) == IF a <= b THEN a ELSE b

Abs(a) == IF a >= 0 THEN a ELSE -a

\* _update_price_history keeping the oldest entries
_update_price_history_keep_oldest(history, price, timestamp) ==
    LET appended == Append(history, [price |-> price, timestamp |-> timestamp])
        max_history == long_period + history_slack
    IN IF Len(appended) > max_history
       THEN SubSeq(appended, 1, max_history)
       ELSE appended

\* _update_price_history: the new list of one symbol
_update_price_history(history, price, timestamp) ==
    LET appended == Append(history, [price |-> price, timestamp |-> timestamp])
        max_history == long_period + history_slack
    IN IF Len(appended) > max_history
       THEN SliceFromNeg(appended, -max_history)
       ELSE appended

\* _calculate_signal_confidence, in ten-thousandths, for short_ma = S / sp
\* and long_ma = L / lp; the two factors are in tenths of den
_calculate_signal_confidence(price, S, sp, L, lp, crossover_type) ==
    LET den == L * sp
        gap_factor == Min(100 * Abs(S * lp - L * sp), 3 * den)
        dist == IF crossover_type = "bullish" THEN price * lp - L ELSE L - price * lp
        price_factor == IF dist > 0 THEN Min(50 * dist * sp, 2 * den) ELSE 0
    IN Min(5000 + (1000 * (gap_factor + price_factor)) \div den, 10000)

\* _detect_crossover without the check of the time since the last signal
_detect_crossover_no_cooldown(symbol, price, prices, timestamp) ==
    LET sp == short_period
        lp == long_period
        prev == SubSeq(prices, 1, Len(prices) - 1)
        S == Sum(LastN(prices, sp))
        L == Sum(LastN(prices, lp))
        PS == Sum(LastN(prev, sp))
        PL == Sum(LastN(prev, lp))
        side == IF PS * lp <= PL * sp /\ S * lp > L * sp THEN "buy"
                ELSE IF PS * lp >= PL * sp /\ S * lp < L * sp THEN "sell"
                ELSE "none"
        confidence == _calculate_signal_confidence(
                          price, S, sp, L, lp,
                          IF side = "buy" THEN "bullish" ELSE "bearish")
    IN IF FALSE
       THEN <<>>
       ELSE IF side # "none" /\ confidence >= strategy_min_confidence
       THEN <<[symbol |-> symbol, side |-> side, confidence |-> confidence,
               \* metadata
               price |-> price,
               crossover_type |-> IF side = "buy" THEN "bullish" ELSE "bearish"]>>
       ELSE <<>>

\* _detect_crossover with the sides of the two crossovers exchanged
_detect_crossover_sides_swapped(symbol, price, prices, timestamp) ==
    LET sp == short_period
        lp == long_period
        prev == SubSeq(prices, 1, Len(prices) - 1)
        S == Sum(LastN(prices, sp))
        L == Sum(LastN(prices, lp))
        PS == Sum(LastN(prev, sp))
        PL == Sum(LastN(prev, lp))
        side == IF PS * lp <= PL * sp /\ S * lp > L * sp THEN "sell"
                ELSE IF PS * lp >= PL * sp /\ S * lp < L * sp THEN "buy"
                ELSE "none"
        confidence == _calculate_signal_confidence(
                          price, S, sp, L, lp,
                          IF side = "sell" THEN "bullish" ELSE "bearish")
    IN IF /\ last_signal_time[symbol] >= 0
          /\ timestamp - last_signal_time[symbol] < signal_cooldown
       THEN <<>>
       ELSE IF side # "none" /\ confidence >= strategy_min_confidence
       THEN <<[symbol |-> symbol, side |-> side, confidence |-> confidence,
               price |-> price,
               crossover_type |-> IF side = "sell" THEN "bullish" ELSE "bearish"]>>
       ELSE <<>>

\* _detect_crossover: the signals returned and the new last_signal_time
_detect_crossover(symbol, price, prices, timestamp) ==
    LET sp == short_period
        lp == long_period
        prev == SubSeq(prices, 1, Len(prices) - 1)
        S == Sum(LastN(prices, sp))
        L == Sum(LastN(prices, lp))
        PS == Sum(LastN(prev, sp))
        PL == Sum(LastN(prev, lp))
        side == IF PS * lp <= PL * sp /\ S * lp > L * sp THEN "buy"
                ELSE IF PS * lp >= PL * sp /\ S * lp < L * sp THEN "sell"
                ELSE "none"
        confidence == _calculate_signal_confidence(
                          price, S, sp, L, lp,
                          IF side = "buy" THEN "bullish" ELSE "bearish")
    IN IF /\ last_signal_time[symbol] >= 0
          /\ timestamp - last_signal_time[symbol] < signal_cooldown
       THEN <<>>
       ELSE IF side # "none" /\ confidence >= strategy_min_confidence
       THEN <<[symbol |-> symbol, side |-> side, confidence |-> confidence,
               \* metadata
               price |-> price,
               crossover_type |-> IF side = "buy" THEN "bullish" ELSE "bearish"]>>
       ELSE <<>>

\* _extract_price: a payload is the list of the prices it carries
_extract_price(payload) == Head(payload)

\* process_market_event of the strategy: what it does to the strategy
StrategyStep(type, symbol, payload, timestamp) ==
    IF \/ ~strategy_active
       \/ type # "tick"
       \/ symbol \notin symbols
       \/ payload = <<>>
    THEN /\ emitted' = <<>>
         /\ UNCHANGED <<short_period, long_period, strategy_active, price_history,
                        last_signal_time, ticks, symbols>>
    ELSE LET price == _extract_price(payload)
             history == _update_price_history(price_history[symbol], price, timestamp)
             prices == Prices(history)
             \* no averages below long_period prices, no previous averages
             \* below long_period + 1
             signals == IF Len(prices) < long_period + 1
                        THEN <<>>
                        ELSE _detect_crossover(symbol, price, prices, timestamp)
         IN /\ price_history' = [price_history EXCEPT ![symbol] = history]
            /\ ticks' = [ticks EXCEPT ![symbol] =
                            Append(@, [price |-> price, timestamp |-> timestamp])]
            /\ last_signal_time' = IF signals # <<>>
                                   THEN [last_signal_time EXCEPT ![symbol] = timestamp]
                                   ELSE last_signal_time
            /\ emitted' = signals
            /\ UNCHANGED <<short_period, long_period, strategy_active, symbols>>

\* process_market_event of the strategy, called on its own
process_market_event(type, symbol, payload, timestamp) ==
    /\ StrategyStep(type, symbol, payload, timestamp)
    /\ UNCHANGED <<riskVars, execVars, otherVars>>

NoEvent == [type |-> "none", symbol |-> "none", invoked |-> FALSE]

\* StrategyEngine.process_market_event with the one strategy that ignores
\* whether the engine is running
strategy_engine_process_market_event_unchecked(type, symbol, payload, timestamp) ==
    IF ~strategy_active \/ symbol \notin symbols
    THEN /\ last_event' = [type |-> type, symbol |-> symbol, invoked |-> FALSE]
         /\ UNCHANGED <<riskVars, execVars, maVars, is_running, signal_events,
                        feed, auditVars, extVars, alpacaVars, aiVars>>
    ELSE /\ StrategyStep(type, symbol, payload, timestamp)
         /\ signal_events' = signal_events \o emitted'
         /\ events' = events \o [i \in 1..Len(emitted') |-> "SIGNAL_GENERATED"]
         /\ last_event' = [type |-> type, symbol |-> symbol, invoked |-> TRUE]
         /\ UNCHANGED <<rules, is_active, recent_signals, verdicts, lastCall,
                        rule_changes, execVars, is_running, feed, auditVars, extVars,
                        alpacaVars, aiVars>>

\* StrategyEngine.process_market_event with the one strategy registered:
\* every signal the strategy returns is published as a SIGNAL_GENERATED event
strategy_engine_process_market_event(type, symbol, payload, timestamp) ==
    IF ~is_running \/ ~strategy_active \/ symbol \notin symbols
    THEN /\ last_event' = [type |-> type, symbol |-> symbol, invoked |-> FALSE]
         /\ UNCHANGED <<riskVars, execVars, maVars, is_running, signal_events,
                        feed, auditVars, extVars, alpacaVars, aiVars>>
    ELSE /\ StrategyStep(type, symbol, payload, timestamp)
         /\ signal_events' = signal_events \o emitted'
         /\ events' = events \o [i \in 1..Len(emitted') |-> "SIGNAL_GENERATED"]
         /\ last_event' = [type |-> type, symbol |-> symbol, invoked |-> TRUE]
         /\ UNCHANGED <<rules, is_active, recent_signals, verdicts, lastCall,
                        rule_changes, execVars, is_running, feed, auditVars, extVars,
                        alpacaVars, aiVars>>

\* StrategyEngine.start
strategy_engine_start ==
    /\ is_running' = TRUE
    /\ UNCHANGED <<riskVars, execVars, maVars, signal_events, feed, last_event, auditVars, extVars,
                   alpacaVars, aiVars>>

\* StrategyEngine.stop
strategy_engine_stop ==
    /\ is_running' = FALSE
    /\ UNCHANGED <<riskVars, execVars, maVars, signal_events, feed, last_event, auditVars, extVars,
                   alpacaVars, aiVars>>

\* BaseStrategy.activate
strategy_activate ==
    /\ strategy_active' = TRUE
    /\ UNCHANGED <<riskVars, execVars, otherVars, short_period, long_period,
                   price_history, last_signal_time, ticks, emitted, symbols>>

\* BaseStrategy.deactivate
strategy_deactivate ==
    /\ strategy_active' = FALSE
    /\ UNCHANGED <<riskVars, execVars, otherVars, short_period, long_period,
                   price_history, last_signal_time, ticks, emitted, symbols>>

-----------------------------------------------------------------------------
\* AuditLogger.  A record is its number and the table it goes to.

Producers == {"p1", "p2"}

\* who calls _flush_buffer: the periodic task, shutdown, and a log_* call
\* of a producer that filled the buffer
Flushers == {"periodic", "shutdown"} \cup Producers

AuditTables == {"audit_events", "order_events"}

NoFlush == [pc |-> "idle", groups |-> <<>>]

\* the keys of the dict _flush_buffer builds: tables in the order they
\* first appear in the buffer
TableOrder(buf) ==
    LET tables == {buf[i].table : i \in 1..Len(buf)}
        \* where a table appears first in the buffer
        first(t) == CHOOSE i \in 1..Len(buf) :
                        /\ buf[i].table = t
                        /\ \A j \in 1..(i - 1) : buf[j].table # t
    IN [k \in 1..Cardinality(tables) |->
           CHOOSE t \in tables :
               Cardinality({u \in tables : first(u) < first(t)}) = k - 1]

\* the dict _flush_buffer builds: per table, the records of the buffer
GroupByTable(buf) ==
    LET order == TableOrder(buf)
    IN [k \in 1..Len(order) |->
           {buf[i].id : i \in {j \in 1..Len(buf) : buf[j].table = order[k]}}]

\* _flush_buffer up to its await of connection_pool.acquire, called by c:
\* the new flush_calls
BeginFlush(c) ==
    IF _buffer = <<>> \/ connection_pool = "none"
    THEN flush_calls
    ELSE [flush_calls EXCEPT ![c] = [pc |-> "acquiring", groups |-> <<>>]]

Inserted(ids) == [id \in DOMAIN store |-> IF id \in ids THEN store[id] + 1 ELSE store[id]]

\* initialize: "ok", or the pool cannot be created ("no_pool"), or the
\* tables cannot be created after the pool was ("no_tables")
audit_initialize(outcome) ==
    /\ connection_pool = "none"
    /\ _flush_task = "none"
    /\ audit_shutdown.pc = "none"
    /\ connection_pool' = IF outcome = "no_pool" THEN "none" ELSE "open"
    /\ _flush_task' = IF outcome = "ok" THEN "running" ELSE "none"
    /\ UNCHANGED <<riskVars, execVars, maVars, seVars, alpacaVars, aiVars, extVars,
                   _buffer, flush_calls,
                   audit_shutdown, store, logged, insert_failures>>

\* log_event, log_order_event and the other log_* calls, by producer p:
\* append, and flush when the buffer is full
log_event(p, table) ==
    LET appended == Append(_buffer, [id |-> logged + 1, table |-> table])
    IN /\ flush_calls[p].pc = "idle"
       /\ logged' = logged + 1
       /\ _buffer' = appended
       /\ flush_calls' = IF Len(appended) >= _buffer_size /\ connection_pool # "none"
                         THEN [flush_calls EXCEPT ![p] =
                                  [pc |-> "acquiring", groups |-> <<>>]]
                         ELSE flush_calls
       /\ UNCHANGED <<riskVars, execVars, maVars, seVars, alpacaVars, aiVars, extVars,
                   connection_pool,
                      _flush_task, audit_shutdown, store, insert_failures>>

\* _flush_buffer_periodically: the sleep ends and _flush_buffer is called
periodic_flush ==
    /\ _flush_task = "running"
    /\ flush_calls["periodic"].pc = "idle"
    /\ flush_calls' = BeginFlush("periodic")
    /\ UNCHANGED <<riskVars, execVars, maVars, seVars, alpacaVars, aiVars, extVars,
                   _buffer, connection_pool,
                   _flush_task, audit_shutdown, store, logged, insert_failures>>

\* _flush_buffer of caller c from the return of acquire to the first
\* bulk insert: the buffer is grouped by table as it is now
flush_acquired(c) ==
    /\ flush_calls[c].pc = "acquiring"
    /\ flush_calls' = [flush_calls EXCEPT ![c] =
          IF connection_pool # "open" \/ _buffer = <<>>
          THEN NoFlush
          ELSE [pc |-> "inserting", groups |-> GroupByTable(_buffer)]]
    /\ UNCHANGED <<riskVars, execVars, maVars, seVars, alpacaVars, aiVars, extVars,
                   _buffer, connection_pool,
                   _flush_task, audit_shutdown, store, logged, insert_failures>>

\* _flush_buffer of caller c from the return of one _bulk_insert on: the
\* next table, or the buffer is cleared; a failed insert ends the flush
bulk_insert_returns(c, ok) ==
    LET call == flush_calls[c]
    IN /\ call.pc = "inserting"
       /\ ok \/ insert_failures < MaxInsertFailures
       /\ IF ok
          THEN /\ store' = Inserted(Head(call.groups))
               /\ IF Len(call.groups) > 1
                  THEN /\ flush_calls' = [flush_calls EXCEPT ![c].groups = Tail(@)]
                       /\ UNCHANGED _buffer
                  ELSE /\ flush_calls' = [flush_calls EXCEPT ![c] = NoFlush]
                       /\ _buffer' = <<>>
               /\ UNCHANGED insert_failures
          ELSE /\ flush_calls' = [flush_calls EXCEPT ![c] = NoFlush]
               /\ insert_failures' = insert_failures + 1
               /\ UNCHANGED <<store, _buffer>>
       /\ UNCHANGED <<riskVars, execVars, maVars, seVars, alpacaVars, aiVars, extVars,
                   connection_pool,
                      _flush_task, audit_shutdown, logged>>

\* shutdown up to its await of the cancelled flush task
audit_shutdown_begins ==
    /\ audit_shutdown.pc = "none"
    /\ IF _flush_task = "running"
       THEN /\ audit_shutdown' = [pc |-> "awaiting_task", before |-> 1..logged]
            /\ UNCHANGED flush_calls
       ELSE /\ audit_shutdown' = [pc |-> "flushing", before |-> 1..logged]
            /\ flush_calls' = BeginFlush("shutdown")
    /\ UNCHANGED <<riskVars, execVars, maVars, seVars, alpacaVars, aiVars, extVars,
                   _buffer, connection_pool,
                   _flush_task, store, logged, insert_failures>>

\* the cancelled flush task exits: CancelledError is raised at the await it
\* is suspended in and leaves _flush_buffer without clearing the buffer; a
\* bulk insert under way may or may not have reached the store
flush_task_cancelled(done) ==
    LET call == flush_calls["periodic"]
    IN /\ audit_shutdown.pc = "awaiting_task"
       /\ _flush_task = "running"
       /\ _flush_task' = "done"
       /\ done => call.pc = "inserting"
       /\ store' = IF done THEN Inserted(Head(call.groups)) ELSE store
       /\ flush_calls' = [flush_calls EXCEPT !["periodic"] = NoFlush]
       /\ UNCHANGED <<riskVars, execVars, maVars, seVars, alpacaVars, aiVars, extVars,
                   _buffer, connection_pool,
                      audit_shutdown, logged, insert_failures>>

\* shutdown from the exit of the flush task to the await in its own
\* _flush_buffer call
audit_shutdown_flushes ==
    /\ audit_shutdown.pc = "awaiting_task"
    /\ _flush_task = "done"
    /\ audit_shutdown' = [audit_shutdown EXCEPT !.pc = "flushing"]
    /\ flush_calls' = BeginFlush("shutdown")
    /\ UNCHANGED <<riskVars, execVars, maVars, seVars, alpacaVars, aiVars, extVars,
                   _buffer, connection_pool,
                   _flush_task, store, logged, insert_failures>>

\* shutdown after its flush: connection_pool.close(), which waits for the
\* connections in use to be released
audit_shutdown_closes ==
    /\ audit_shutdown.pc = "flushing"
    /\ flush_calls["shutdown"].pc = "idle"
    /\ \A c \in Flushers : flush_calls[c].pc # "inserting"
    /\ audit_shutdown' = [audit_shutdown EXCEPT !.pc = "done"]
    /\ connection_pool' = IF connection_pool = "none" THEN "none" ELSE "closed"
    /\ UNCHANGED <<riskVars, execVars, maVars, seVars, alpacaVars, aiVars, extVars,
                   _buffer, _flush_task,
                   flush_calls, store, logged, insert_failures>>

-----------------------------------------------------------------------------
\* AlpacaBrokerAdapter: order status conversion

\* the statuses of the vendor's API
AlpacaStatuses ==
    {"new", "partially_filled", "filled", "done_for_day", "canceled", "expired",
     "replaced", "pending_cancel", "pending_replace", "accepted", "pending_new",
     "accepted_for_bidding", "stopped", "rejected", "suspended", "calculated"}

\* vendor strings explored: the vendor's statuses, two of them in another
\* case, and two strings that are no status of the vendor
VendorStrings == AlpacaStatuses \cup {"FILLED", "Pending_New", "held", ""}

\* str.lower on the strings explored
lower(str) ==
    CASE str = "FILLED" -> "filled"
      [] str = "Pending_New" -> "pending_new"
      [] OTHER -> str

_convert_order_status(alpaca_status) ==
    LET key == lower(alpaca_status)
    IN CASE key = "new" -> "submitted"
         [] key = "partially_filled" -> "partially_filled"
         [] key = "filled" -> "filled"
         [] key = "done_for_day" -> "cancelled"
         [] key = "canceled" -> "cancelled"
         [] key = "expired" -> "cancelled"
         [] key = "replaced" -> "cancelled"
         [] key = "pending_cancel" -> "pending"
         [] key = "pending_replace" -> "pending"
         [] key = "accepted" -> "submitted"
         [] key = "pending_new" -> "pending"
         [] key = "accepted_for_bidding" -> "submitted"
         [] key = "stopped" -> "cancelled"
         [] key = "rejected" -> "rejected"
         [] key = "suspended" -> "cancelled"
         [] key = "calculated" -> "submitted"
         [] OTHER -> "pending"

\* the vendor moves the order to another status
vendor_reports(str) ==
    /\ vendor_status # str
    /\ vendor_status' = str
    /\ UNCHANGED <<riskVars, execVars, maVars, seVars, auditVars, aiVars, extVars, reported>>

\* get_order_status of the adapter, connected, the vendor call succeeding
alpaca_get_order_status ==
    /\ reported' = Append(reported, [vendor |-> vendor_status,
                                     status |-> _convert_order_status(vendor_status)])
    /\ UNCHANGED <<riskVars, execVars, maVars, seVars, auditVars, aiVars, extVars, vendor_status>>

-----------------------------------------------------------------------------
\* AIAdvisorService.  A reply of the language model is the lengths of its
\* sections; an idea is its number and the section it was parsed from.

section_min_length == 100

max_parsed_ideas == 3

idea_confidence == 7000

\* the sections _parse_trade_ideas keeps, in order
RECURSIVE LongSections(_, _)
LongSections(lengths, i) ==
    IF i > Len(lengths) THEN <<>>
    ELSE IF lengths[i] > section_min_length
         THEN <<i>> \o LongSections(lengths, i + 1)
         ELSE LongSections(lengths, i + 1)

_parse_trade_ideas(lengths, first_id) ==
    LET kept == LongSections(lengths, 1)
        n == Min(Len(kept), max_parsed_ideas)
    IN [k \in 1..n |-> [id |-> first_id + k - 1,
                        description |-> kept[k],
                        confidence |-> idea_confidence,
                        approved |-> "none"]]

\* create_trade_idea_generated_event
create_trade_idea_generated_event(idea) ==
    [event_type |-> "SIGNAL_GENERATED", trade_idea |-> idea.id]

\* generate_trade_ideas: nothing when the advisor is disabled or the call of
\* the language model raises; otherwise the parsed ideas, each published
generate_trade_ideas(lengths, raises) ==
    LET parsed == _parse_trade_ideas(lengths, Len(trade_ideas) + 1)
    IN /\ idea_calls' = idea_calls + 1
       /\ IF ~ai_enabled \/ raises
          THEN UNCHANGED <<trade_ideas, idea_events>>
          ELSE /\ trade_ideas' = trade_ideas \o parsed
               /\ idea_events' = idea_events \o
                     [k \in 1..Len(parsed) |-> create_trade_idea_generated_event(parsed[k])]
       /\ UNCHANGED <<riskVars, execVars, maVars, seVars, auditVars, alpacaVars, extVars,
                      ai_enabled, idea_actions, minted_signals>>

\* approve_trade_idea: logs, and returns None
approve_trade_idea(idea_id) ==
    /\ idea_actions' = idea_actions \cup {<<idea_id, "approve">>}
    /\ UNCHANGED <<riskVars, execVars, maVars, seVars, auditVars, alpacaVars, extVars,
                   ai_enabled, trade_ideas, idea_events, idea_calls, minted_signals>>

\* reject_trade_idea: logs, and returns True
reject_trade_idea(idea_id) ==
    /\ idea_actions' = idea_actions \cup {<<idea_id, "reject">>}
    /\ UNCHANGED <<riskVars, execVars, maVars, seVars, auditVars, alpacaVars, extVars,
                   ai_enabled, trade_ideas, idea_events, idea_calls, minted_signals>>

-----------------------------------------------------------------------------
\* StrategyEngine over its registry.  A strategy is its name, its symbols
\* and whether it is active; what it does with an event is an input.

StrategyNames == {"ma", "rsi"}

SymbolSets == {{"AAPL"}, {"AAPL", "MSFT"}}

NoOp == [op |-> "none", name |-> "none", before |-> <<>>,
         prev_op |-> "none", prev_name |-> "none", prev_before |-> <<>>]

NoDispatch == [symbol |-> "none", due |-> {}, behaviour |-> <<>>, invoked |-> {},
               raised |-> {}, published |-> <<>>, error |-> FALSE]

Registered(registry) == {registry[i].name : i \in 1..Len(registry)}

\* the registry operation `op` on `name` recorded after the latest one
Logged(op, name) ==
    [op |-> op, name |-> name, before |-> strategies,
     prev_op |-> last_op.op, prev_name |-> last_op.name,
     prev_before |-> last_op.before]

\* the registry without the strategy called name
RECURSIVE Deleted(_, _)
Deleted(registry, name) ==
    IF registry = <<>> THEN <<>>
    ELSE IF Head(registry).name = name
         THEN Deleted(Tail(registry), name)
         ELSE <<Head(registry)>> \o Deleted(Tail(registry), name)

\* get_required_symbols: the symbols of the active strategies
get_required_symbols(registry) ==
    UNION {registry[i].symbols : i \in {j \in 1..Len(registry) : registry[j].is_active}}

\* register_strategy: ValueError when the name is registered
register_strategy(name, syms) ==
    /\ registry_ops' = registry_ops + 1
    /\ IF name \in Registered(strategies)
       THEN /\ last_op' = Logged("register_raised", name)
            /\ UNCHANGED strategies
       ELSE /\ last_op' = Logged("register", name)
            /\ strategies' = Append(strategies,
                  [name |-> name, symbols |-> syms, is_active |-> TRUE])
    /\ UNCHANGED <<riskVars, execVars, maVars, seVars, auditVars, alpacaVars, aiVars,
                   dispatch, modelVars, traceVars>>

\* unregister_strategy leaving the registry as it is
unregister_strategy_kept(name) ==
    /\ registry_ops' = registry_ops + 1
    /\ last_op' = Logged("unregister", name)
    /\ UNCHANGED <<riskVars, execVars, maVars, seVars, auditVars, alpacaVars, aiVars,
                   strategies, dispatch, modelVars, traceVars>>

unregister_strategy(name) ==
    /\ registry_ops' = registry_ops + 1
    /\ last_op' = Logged("unregister", name)
    /\ strategies' = Deleted(strategies, name)
    /\ UNCHANGED <<riskVars, execVars, maVars, seVars, auditVars, alpacaVars, aiVars,
                   dispatch, modelVars, traceVars>>

\* BaseStrategy.activate and deactivate of a registered strategy
set_strategy_active(name, active) ==
    /\ \E i \in 1..Len(strategies) :
          /\ strategies[i].name = name
          /\ strategies[i].is_active # active
          /\ strategies' = [strategies EXCEPT ![i].is_active = active]
    /\ registry_ops' = registry_ops + 1
    /\ last_op' = Logged(IF active THEN "activate" ELSE "deactivate", name)
    /\ UNCHANGED <<riskVars, execVars, maVars, seVars, auditVars, alpacaVars, aiVars,
                   dispatch, modelVars, traceVars>>

\* the strategies process_market_event has to invoke for an event on symbol
Due(registry, symbol) ==
    {registry[i].name : i \in {j \in 1..Len(registry) :
                                  registry[j].is_active /\ symbol \in registry[j].symbols}}

\* the loop of process_market_event from strategy i on: what was invoked,
\* what raised and what was published; behaviour[name] says whether the
\* strategy raises, and how many signals it returns otherwise
RECURSIVE Dispatched(_, _, _, _)
Dispatched(registry, i, symbol, behaviour) ==
    IF i > Len(registry)
    THEN [invoked |-> {}, raised |-> {}, published |-> <<>>]
    ELSE LET st == registry[i]
             rest == Dispatched(registry, i + 1, symbol, behaviour)
         IN IF ~st.is_active \/ symbol \notin st.symbols
            THEN rest
            ELSE IF behaviour[st.name].raises
                 THEN [rest EXCEPT !.invoked = @ \cup {st.name},
                                   !.raised = @ \cup {st.name}]
                 ELSE [rest EXCEPT !.invoked = @ \cup {st.name},
                                   !.published =
                                       [k \in 1..behaviour[st.name].signals |-> st.name] \o @]

\* the loop without its try: the first strategy that raises ends the call
RECURSIVE DispatchedNoTry(_, _, _, _)
DispatchedNoTry(registry, i, symbol, behaviour) ==
    IF i > Len(registry)
    THEN [invoked |-> {}, raised |-> {}, published |-> <<>>]
    ELSE LET st == registry[i]
             rest == DispatchedNoTry(registry, i + 1, symbol, behaviour)
         IN IF ~st.is_active \/ symbol \notin st.symbols
            THEN rest
            ELSE IF behaviour[st.name].raises
                 THEN [invoked |-> {st.name}, raised |-> {st.name}, published |-> <<>>]
                 ELSE [rest EXCEPT !.invoked = @ \cup {st.name},
                                   !.published =
                                       [k \in 1..behaviour[st.name].signals |-> st.name] \o @]

\* process_market_event over the registry, without its try
dispatch_market_event_no_try(symbol, behaviour) ==
    LET d == DispatchedNoTry(strategies, 1, symbol, behaviour)
    IN /\ is_running
       /\ dispatch' = [symbol |-> symbol, due |-> Due(strategies, symbol),
                       behaviour |-> behaviour,
                       invoked |-> d.invoked, raised |-> d.raised,
                       published |-> d.published, error |-> d.raised # {}]
       /\ signal_events' = signal_events \o d.published
       /\ events' = events \o [k \in 1..Len(d.published) |-> "SIGNAL_GENERATED"]
       /\ UNCHANGED <<rules, is_active, recent_signals, verdicts, lastCall, rule_changes,
                      execVars, maVars, is_running, feed, last_event, auditVars, alpacaVars, aiVars,
                      strategies, last_op, registry_ops, modelVars, traceVars>>

\* process_market_event over the registry, the engine running
dispatch_market_event(symbol, behaviour) ==
    LET d == Dispatched(strategies, 1, symbol, behaviour)
    IN /\ is_running
       /\ dispatch' = [symbol |-> symbol, due |-> Due(strategies, symbol),
                       behaviour |-> behaviour,
                       invoked |-> d.invoked, raised |-> d.raised,
                       published |-> d.published, error |-> FALSE]
       /\ signal_events' = signal_events \o d.published
       /\ events' = events \o [k \in 1..Len(d.published) |-> "SIGNAL_GENERATED"]
       /\ UNCHANGED <<rules, is_active, recent_signals, verdicts, lastCall, rule_changes,
                      execVars, maVars, is_running, feed, last_event, auditVars, alpacaVars, aiVars,
                      strategies, last_op, registry_ops, modelVars, traceVars>>

-----------------------------------------------------------------------------
\* TradeSignal.  confidence is in hundredths; price is <<>> for None and
\* <<p>> for the price p.

\* __post_init__ with the bounds of confidence excluded
post_init_strict(confidence, qty, price) ==
    IF ~(0 < confidence /\ confidence < 100) THEN "ValueError"
    ELSE IF qty <= 0 THEN "ValueError"
    ELSE IF price # <<>> /\ price[1] <= 0 THEN "ValueError"
    ELSE "ok"

\* __post_init__: "ok", or "ValueError"
post_init(confidence, qty, price) ==
    IF ~(0 <= confidence /\ confidence <= 100) THEN "ValueError"
    ELSE IF qty <= 0 THEN "ValueError"
    ELSE IF price # <<>> /\ price[1] <= 0 THEN "ValueError"
    ELSE "ok"

\* TradeSignal(...): the construction and its outcome
construct_signal(confidence, qty, price) ==
    /\ constructed' = Append(constructed,
          [confidence |-> confidence, qty |-> qty, price |-> price,
           result |-> post_init(confidence, qty, price)])
    /\ UNCHANGED <<riskVars, execVars, maVars, seVars, auditVars, alpacaVars, aiVars,
                   registryVars, traceVars>>

-----------------------------------------------------------------------------
\* Inputs

Symbols == {"AAPL", "SPY"}
Sides == {"buy", "sell"}
Quantities == {1, 100}
Confidences == {50, 80}
CreatedAts == {0, 10, 60}
Equities == {0, 10000}

PositionInputs ==
    {<<[symbol |-> "AAPL", qty |-> 10], [symbol |-> "AAPL", qty |-> 0]>>,
     <<[symbol |-> "AAPL", qty |-> 10], [symbol |-> "AAPL", qty |-> -5]>>}

\* datetime.now(): weekday() is 0 (Monday) .. 6, hour is 0 .. 23
ClockInputs ==
    {[weekday |-> 2, hour |-> 10], [weekday |-> 2, hour |-> 3],
     [weekday |-> 2, hour |-> 16], [weekday |-> 5, hour |-> 10]}

CustomInputs == {Pass, Fail("custom limit"), Raise("custom error")}

\* a custom rule's behaviour is an input only where one is registered
CustomInputsFor(rs) ==
    IF \E i \in 1..Len(rs) : rs[i] = CustomRule THEN CustomInputs ELSE {Pass}

AllCalls ==
    [signal : [symbol : Symbols, side : Sides, qty : Quantities,
               confidence : Confidences, created_at : CreatedAts],
     account : [equity : Equities],
     positions : PositionInputs,
     now : ClockInputs]

\* the call every default rule passes on an empty buffer
NominalCall ==
    [signal |-> [symbol |-> "AAPL", side |-> "buy", qty |-> 1,
                 confidence |-> 80, created_at |-> 0],
     account |-> [equity |-> 10000],
     positions |-> <<[symbol |-> "AAPL", qty |-> 10], [symbol |-> "AAPL", qty |-> 0]>>,
     now |-> [weekday |-> 2, hour |-> 10]]

B2N(b) == IF b THEN 1 ELSE 0

\* in how many of its inputs a call differs from the nominal one
Deviations(c) ==
    LET n == NominalCall
    IN B2N(c.signal.symbol # n.signal.symbol)
       + B2N(c.signal.side # n.signal.side)
       + B2N(c.signal.qty # n.signal.qty)
       + B2N(c.signal.confidence # n.signal.confidence)
       + B2N(c.signal.created_at # n.signal.created_at)
       + B2N(c.account # n.account)
       + B2N(c.positions # n.positions)
       + B2N(c.now # n.now)

\* the calls explored: every call that differs from the nominal one in at
\* most two of its inputs
CallInputs == UNION {{c} : c \in {d \in AllCalls : Deviations(d) <= 2}}

\* the TradeSignal with the id create_trade_signal draws for it
WithId(s, id) ==
    [id |-> id, symbol |-> s.symbol, side |-> s.side, qty |-> s.qty,
     confidence |-> s.confidence, created_at |-> s.created_at]

-----------------------------------------------------------------------------
\* The risk engine on its own: any signal, any snapshot, any rule change

NoCall ==
    [n |-> 0,
     signal |-> WithId(NominalCall.signal, 0), account |-> NominalCall.account,
     positions |-> NominalCall.positions, now |-> NominalCall.now,
     custom |-> Pass, rules |-> <<>>, active |-> TRUE, recent |-> <<>>,
     approved |-> FALSE, reason |-> <<>>, evaluated |-> <<>>,
     published |-> <<>>]

RiskInit ==
    /\ rules = DefaultRules
    /\ is_active = TRUE
    /\ recent_signals = <<>>
    /\ events = <<>>
    /\ verdicts = <<>>
    /\ lastCall = NoCall
    /\ rule_changes = 0

ExecInit ==
    /\ status = "idle"
    /\ active_orders = {}
    /\ order_history = {}
    /\ stats = [orders_submitted |-> 0, orders_filled |-> 0,
                orders_rejected |-> 0, orders_cancelled |-> 0]
    /\ exec_tasks = [s \in 1..MaxSignals |-> NoTask]
    /\ monitors = <<>>
    /\ cancel_tasks = {}
    /\ shutdown_task = [pc |-> "none", todo |-> <<>>]
    /\ initialized = FALSE
    /\ broker_connected = FALSE
    /\ place_calls = <<>>
    /\ broker_orders = <<>>

\* the strategy as constructed, with the periods it is given
MAInit(periods, syms) ==
    /\ short_period = periods[1]
    /\ long_period = periods[2]
    /\ strategy_active = TRUE
    /\ symbols = syms
    /\ price_history = [sym \in syms |-> <<>>]
    /\ last_signal_time = [sym \in syms |-> -1]
    /\ ticks = [sym \in syms |-> <<>>]
    /\ emitted = <<>>

\* the strategy engine as constructed; the caller holds the prices to feed
StrategyEngineInit(prices) ==
    /\ is_running = FALSE
    /\ signal_events = <<>>
    /\ feed = prices
    /\ last_event = NoEvent

\* the audit logger as constructed
AuditInit ==
    /\ _buffer = <<>>
    /\ connection_pool = "none"
    /\ _flush_task = "none"
    /\ flush_calls = [c \in Flushers |-> NoFlush]
    /\ audit_shutdown = [pc |-> "none", before |-> {}]
    /\ store = [id \in 1..MaxAuditRecords |-> 0]
    /\ logged = 0
    /\ insert_failures = 0

\* the broker adapter with one order at the vendor
AlpacaInit ==
    /\ vendor_status = "new"
    /\ reported = <<>>

\* the advisor as constructed: ai_enabled is whether OPENAI_API_KEY is set
AdvisorInit(enabled) ==
    /\ ai_enabled = enabled
    /\ trade_ideas = <<>>
    /\ idea_events = <<>>
    /\ idea_actions = {}
    /\ idea_calls = 0
    /\ minted_signals = {}

\* the strategy engine with no strategy registered
RegistryInit ==
    /\ strategies = <<>>
    /\ last_op = NoOp
    /\ registry_ops = 0
    /\ dispatch = NoDispatch

ModelsInit == constructed = <<>>

NoCancel == [known |-> FALSE, reply |-> "never", result |-> FALSE]

TraceInit ==
    /\ late_calls = {}
    /\ last_cancel = NoCancel
    /\ cancel_acked = {}
    /\ tallies = {}

ExtInit == RegistryInit /\ ModelsInit /\ TraceInit

OtherInit ==
    StrategyEngineInit(<<>>) /\ AuditInit /\ AlpacaInit /\ AdvisorInit(TRUE) /\ ExtInit

Init == RiskInit /\ ExecInit /\ MAInit(DefaultPeriods, StrategySymbols) /\ OtherInit

RiskNext ==
    \/ /\ Len(verdicts) < MaxSignals
       /\ \E c \in CallInputs, custom \in CustomInputsFor(rules) :
            validate_signal(WithId(c.signal, Len(verdicts) + 1), c.account,
                            c.positions, c.now, custom)
    \/ add_rule(CustomRule)
    \/ \E name \in RuleNames : remove_rule(name)
    \/ activate
    \/ deactivate

SpecRisk == Init /\ [][RiskNext]_vars

-----------------------------------------------------------------------------
\* Properties of validate_signal, stated of the latest call

Called == lastCall.n > 0

\* what rule `name` says of the snapshot call c was given
Outcome(c, name) ==
    RuleValidate(name, c.signal, c.account, c.positions, c.recent, c.now,
                 c.custom).res

\* index in c.rules of the first rule the snapshot does not pass, 0 if none
FirstStop(c) ==
    LET stops == {k \in 1..Len(c.rules) : Outcome(c, c.rules[k]) # "pass"}
    IN IF stops = {} THEN 0
       ELSE CHOOSE k \in stops : \A j \in stops : k <= j

\* index in c.rules of the first rule that returns a failure, 0 if none
FirstFail(c) ==
    LET fails == {k \in 1..Len(c.rules) : Outcome(c, c.rules[k]) = "fail"}
    IN IF fails = {} THEN 0
       ELSE CHOOSE k \in fails : \A j \in fails : k <= j

\* C3 as stated: whenever validate_signal approves a signal, all five
\* default rules pass against the account, positions and recent-signals
\* buffer presented to that call, whatever add_rule, remove_rule, activate
\* and deactivate calls came before.
C3_ApprovedPassedFiveDefaults ==
    (Called /\ lastCall.approved) =>
        \A r \in DefaultRuleNames : Outcome(lastCall, r) = "pass"

\* C3 amended: whenever validate_signal approves a signal, the engine was
\* active, SIGNAL_APPROVED was published, and every rule registered at the
\* time of the call was evaluated and passes against the snapshot presented
\* to the call; so all five default rules pass when none has been removed.
C3_ApprovedPassedRegistered ==
    (Called /\ lastCall.approved) =>
        /\ lastCall.active
        /\ lastCall.published = <<"SIGNAL_APPROVED">>
        /\ lastCall.evaluated = lastCall.rules
        /\ \A k \in 1..Len(lastCall.rules) :
                Outcome(lastCall, lastCall.rules[k]) = "pass"
        /\ (\A r \in DefaultRuleNames : \E k \in 1..Len(lastCall.rules) :
                lastCall.rules[k] = r)
            => \A r \in DefaultRuleNames : Outcome(lastCall, r) = "pass"

C3_Witness ==
    /\ Called /\ lastCall.approved
    /\ lastCall.rules = Append(DefaultRules, CustomRule)
    /\ lastCall.recent # <<>>

\* C4 as stated: the reason of every rejection begins with the name of the
\* first rule, in registration order, that does not pass, and no rule
\* registered after it is evaluated.
C4_RejectionNamesFirstFailing ==
    (Called /\ ~lastCall.approved) =>
        /\ FirstFail(lastCall) # 0
        /\ Len(lastCall.reason) > 0
        /\ Head(lastCall.reason) = lastCall.rules[FirstFail(lastCall)]
        /\ lastCall.evaluated = SubSeq(lastCall.rules, 1, FirstFail(lastCall))

\* C4 amended: a rejection returned while the engine is active stops at the
\* first rule, in registration order, that does not pass: no later rule is
\* evaluated, and the reason begins with that rule's name when the rule
\* returned a failure and with "Risk validation error: " when it raised.  A
\* rejection returned while the engine is deactivated evaluates no rule and
\* its reason is "Risk engine is disabled".
C4_RejectionStopsAtFirst ==
    (Called /\ ~lastCall.approved) =>
        IF lastCall.active
        THEN LET k == FirstStop(lastCall)
             IN /\ k # 0
                /\ lastCall.evaluated = SubSeq(lastCall.rules, 1, k)
                /\ Len(lastCall.reason) = 3 \/ Len(lastCall.reason) = 2
                /\ Outcome(lastCall, lastCall.rules[k]) = "fail"
                    => /\ Head(lastCall.reason) = lastCall.rules[k]
                       /\ lastCall.reason[2] = ": "
                /\ Outcome(lastCall, lastCall.rules[k]) = "raise"
                    => Head(lastCall.reason) = "Risk validation error: "
        ELSE /\ lastCall.evaluated = <<>>
             /\ lastCall.reason = <<"Risk engine is disabled">>

\* a rejection by the third rule with a later rule failing too
C4_Witness ==
    /\ Called /\ ~lastCall.approved /\ lastCall.active
    /\ lastCall.rules = DefaultRules
    /\ lastCall.reason # <<>> /\ Head(lastCall.reason) = "min_confidence"
    /\ Outcome(lastCall, "market_hours") = "fail"

\* C6: if a rule raises while validate_signal evaluates it, the call returns
\* a rejection whose reason is "Risk validation error: " followed by the
\* exception, it is not an approval, and the signal is not added to the
\* recent-signals buffer.
C6_RuleErrorRejects ==
    (/\ Called /\ lastCall.active
     /\ FirstStop(lastCall) # 0
     /\ Outcome(lastCall, lastCall.rules[FirstStop(lastCall)]) = "raise") =>
        /\ ~lastCall.approved
        /\ ~verdicts[lastCall.n].approved
        /\ Len(lastCall.reason) = 2
        /\ Head(lastCall.reason) = "Risk validation error: "
        /\ verdicts[lastCall.n].reason = lastCall.reason
        /\ recent_signals = lastCall.recent
        /\ \A i \in 1..Len(recent_signals) :
                recent_signals[i].id # lastCall.signal.id

\* the custom rule raises after the five default rules passed, with a
\* signal already in the buffer
C6_Witness ==
    /\ Called /\ lastCall.active
    /\ lastCall.evaluated = Append(DefaultRules, CustomRule)
    /\ lastCall.custom.res = "raise"
    /\ lastCall.reason = <<"Risk validation error: ", "custom error">>
    /\ Len(recent_signals) = 1

\* C7: every call to validate_signal publishes exactly one event:
\* SIGNAL_APPROVED when it approves, SIGNAL_REJECTED when it rejects, on
\* every rejection path.
C7_OneEventPerCall ==
    Called =>
        lastCall.published =
            IF lastCall.approved THEN <<"SIGNAL_APPROVED">>
                                 ELSE <<"SIGNAL_REJECTED">>

\* the second of two calls is made back-to-back after an approval of a
\* signal of the same symbol and side created less than a minute apart
BackToBackDuplicate ==
    /\ lastCall.n >= 2
    /\ lastCall.recent # <<>>
    /\ LET first == lastCall.recent[Len(lastCall.recent)]
           second == lastCall.signal
       IN /\ first.id = second.id - 1
          /\ first.symbol = second.symbol
          /\ first.side = second.side
          /\ first.created_at - second.created_at < time_window
          /\ second.created_at - first.created_at < time_window

\* rules registered before the first rule called `name` in rs
Before(rs, name) ==
    {rs[k] : k \in {j \in 1..Len(rs) : \A i \in 1..j : rs[i] # name}}

-----------------------------------------------------------------------------
\* The recent-signals buffer under a long stream of signals a minute apart

StreamSignal(confidence) ==
    [NominalCall.signal EXCEPT !.confidence = confidence,
                               !.created_at = time_window * Len(verdicts)]

BufferNext ==
    /\ Len(verdicts) < MaxBufferCalls
    /\ \E confidence \in IF Len(verdicts) < BufferWarmup THEN Confidences ELSE {80} :
          validate_signal(WithId(StreamSignal(confidence), Len(verdicts) + 1),
                          NominalCall.account, NominalCall.positions,
                          NominalCall.now, Pass)

SpecBuffer == Init /\ [][BufferNext]_vars

-----------------------------------------------------------------------------
\* The strategy under a stream of market events

ExploredPeriods == {<<1, 2>>}

EventTypes == {"tick", "bar"}

EventSymbols == StrategySymbols \cup {"TSLA"}

Payloads == {<<>>, <<1>>, <<3>>}

TicksTaken == Len(ticks["AAPL"]) + Len(ticks["MSFT"])

\* the timestamp of the next event of a symbol: the events of one symbol
\* are TickSeconds apart
EventTime(symbol) ==
    IF symbol \in StrategySymbols
    THEN TickSeconds * (Len(ticks[symbol]) + 1)
    ELSE TickSeconds

MAInitial ==
    /\ RiskInit /\ ExecInit /\ OtherInit
    /\ \E periods \in ExploredPeriods : MAInit(periods, StrategySymbols)

MANext ==
    \/ /\ TicksTaken < MaxTicks
       /\ \E type \in EventTypes, symbol \in EventSymbols, payload \in Payloads :
             process_market_event(type, symbol, payload, EventTime(symbol))
    \/ strategy_activate
    \/ strategy_deactivate

SpecMA == MAInitial /\ [][MANext]_vars

-----------------------------------------------------------------------------
\* One order monitored for as long as _monitor_order polls

Replies == {"submitted", "partially_filled", "filled", "cancelled", "rejected",
            "error"}

MonitorNext ==
    \/ /\ Len(verdicts) < 1
       /\ validate_signal(WithId(NominalCall.signal, 1), NominalCall.account,
                          NominalCall.positions, NominalCall.now, Pass)
    \/ \E connected \in BOOLEAN : initialize(connected)
    \/ execute_approved_trade(1)
    \/ \E result \in {"submitted", "rejected"} : place_order_returns(1, result)
    \/ place_order_raises(1)
    \/ \E o \in 1..Len(place_calls) : monitor_polls(o, max_checks)
    \/ \E o \in 1..Len(place_calls), reply \in Replies : poll_returns(o, reply)
    \/ \E o \in 1..Len(place_calls) : cancel_order(o)
    \/ \E o \in 1..Len(place_calls), reply \in {"cancelled", "error"} :
            cancel_returns(o, reply)
    \/ \E o \in 1..Len(place_calls) : broker_cancels(o)
    \/ shutdown
    \/ shutdown_cancels
    \/ \E reply \in {"cancelled", "error"} : shutdown_cancel_returns(reply)
    \/ shutdown_disconnects
    \/ \E o \in 1..Len(place_calls), to \in Terminal \cup {"partially_filled"} :
            broker_moves(o, to)

SpecMonitor == Init /\ [][MonitorNext]_vars

\* the scheduler runs a monitor task that can run, and the broker answers
\* a status request
SpecMonitorFair ==
    /\ SpecMonitor
    /\ WF_vars(\E o \in 1..Len(place_calls) : monitor_polls(o, max_checks))
    /\ WF_vars(\E o \in 1..Len(place_calls), reply \in Replies : poll_returns(o, reply))

-----------------------------------------------------------------------------
\* The pipeline: signals are validated, the caller hands each approval to
\* the execution engine, orders are monitored, cancelled and shut down

\* the calls explored in the pipeline: the nominal one, a duplicate of it,
\* one a minute later and one of low confidence
PipelineCalls ==
    {NominalCall,
     [NominalCall EXCEPT !.signal.created_at = 10],
     [NominalCall EXCEPT !.signal.created_at = 60],
     [NominalCall EXCEPT !.signal.confidence = 50]}

Orders == 1..Len(place_calls)

Next ==
    \/ /\ Len(verdicts) < MaxSignals
       /\ \E c \in PipelineCalls :
            validate_signal(WithId(c.signal, Len(verdicts) + 1), c.account,
                            c.positions, c.now, Pass)
    \/ activate
    \/ deactivate
    \/ \E connected \in BOOLEAN : initialize(connected)
    \/ \E s \in 1..MaxSignals : execute_approved_trade(s)
    \/ \E s \in 1..MaxSignals, result \in {"submitted", "rejected"} :
            place_order_returns(s, result)
    \/ \E s \in 1..MaxSignals : place_order_raises(s)
    \/ \E o \in Orders : monitor_polls(o, MaxPolls)
    \/ \E o \in Orders, reply \in Replies : poll_returns(o, reply)
    \/ \E o \in active_orders : cancel_order(o)
    \/ \E o \in Orders, reply \in {"cancelled", "error"} : cancel_returns(o, reply)
    \/ \E o \in Orders : broker_cancels(o)
    \/ shutdown
    \/ shutdown_cancels
    \/ \E reply \in {"cancelled", "error"} : shutdown_cancel_returns(reply)
    \/ shutdown_disconnects
    \/ \E o \in Orders, to \in Terminal \cup {"partially_filled"} : broker_moves(o, to)

Spec == Init /\ [][Next]_vars

-----------------------------------------------------------------------------
\* Claims about the execution engine, the buffers and the strategy

\* the broker.place_order calls made for signal s
PlaceCalls(s) == Cardinality({o \in 1..Len(place_calls) : place_calls[o] = s})

Rejected(s) == s <= Len(verdicts) /\ ~verdicts[s].approved

\* C1 as stated: every approved signal handed to execute_approved_trade
\* results in exactly one broker.place_order call for it, and a rejected
\* signal in none.
C1_HandedSignalPlacedOnce ==
    \A s \in 1..MaxSignals :
        /\ exec_tasks[s].pc # "none" => PlaceCalls(s) = 1
        /\ Rejected(s) => PlaceCalls(s) = 0

\* C1: an approved signal handed once to execute_approved_trade results in
\* exactly one broker.place_order call when the engine's status is IDLE at
\* that moment and in none when it is not (another call is awaiting the
\* broker, or initialize failed); no signal results in more than one call,
\* and a rejected signal or one never handed over results in none.
C1_HandedSignalPlacedOnceIfIdle ==
    \A s \in 1..MaxSignals :
        /\ PlaceCalls(s) <= 1
        /\ exec_tasks[s].entry_status = "idle" => PlaceCalls(s) = 1
        /\ exec_tasks[s].entry_status # "idle" => PlaceCalls(s) = 0
        /\ Rejected(s) => PlaceCalls(s) = 0

\* one approved signal was placed, and another approved one was handed over
\* while that call awaited the broker and was refused
C1_Witness ==
    \E s, t \in 1..MaxSignals :
        /\ exec_tasks[s].pc = "refused"
        /\ exec_tasks[s].entry_status = "processing"
        /\ verdicts[s].approved
        /\ PlaceCalls(s) = 0
        /\ PlaceCalls(t) = 1

FirstMonitorStarted == Len(monitors) >= 1 /\ monitors[1].pc # "absent"

FirstMonitorReported ==
    /\ Len(monitors) >= 1
    /\ \/ monitors[1].observed \in Terminal
       \/ monitors[1].timed_out

\* C2 as stated: every order place_order returned as SUBMITTED is eventually
\* observed by its monitor task as FILLED, CANCELLED or REJECTED or reported
\* as timed out after 300 polls, and an order whose monitor observed one of
\* these states is no longer in active_orders.
C2_SubmittedOrderReportedEventually ==
    /\ [](\A o \in 1..Len(monitors) :
              monitors[o].observed \in Terminal => o \notin active_orders)
    /\ (FirstMonitorStarted ~> FirstMonitorReported)

\* a monitor task has ended on a partial fill: the order stays in
\* active_orders and nothing polls it any more
C2_MonitorEndedOnPartialFill ==
    /\ Len(monitors) >= 1
    /\ monitors[1].pc = "done"
    /\ monitors[1].observed = "partially_filled"
    /\ ~monitors[1].timed_out
    /\ 1 \in active_orders

\* a monitor task has given up after max_checks polls
C2_MonitorTimedOut ==
    /\ Len(monitors) >= 1
    /\ monitors[1].pc = "done"
    /\ monitors[1].observed = "none"
    /\ monitors[1].timed_out

Disabled == <<"Risk engine is disabled">>

C9_BufferAtMostThousand == Len(recent_signals) <= max_recent_signals

\* an approved signal found the buffer full and left it trimmed to its
\* newer half
C9_Witness ==
    /\ Called
    /\ lastCall.approved
    /\ Len(lastCall.recent) = max_recent_signals
    /\ Len(recent_signals) = max_recent_signals \div 2
    /\ recent_signals[Len(recent_signals)] = lastCall.signal

\* C10: the price history of every symbol holds at most long_period + 10
\* entries, and they are the latest ticks taken for the symbol, in the order
\* they arrived.
C10_HistoryIsLatestTicks ==
    \A sym \in StrategySymbols :
        /\ Len(price_history[sym]) <= long_period + history_slack
        /\ price_history[sym] = LastN(ticks[sym], long_period + history_slack)

\* a symbol has had more ticks than its history keeps
C10_Witness ==
    \E sym \in StrategySymbols :
        /\ Len(ticks[sym]) > long_period + history_slack
        /\ Len(price_history[sym]) = long_period + history_slack
        /\ price_history[sym][1] # ticks[sym][1]

-----------------------------------------------------------------------------
\* The strategy engine fed a list of SPY ticks, as simple_test.py does

\* test_prices of simple_test.py
RisingFeed == <<100, 101, 102, 103, 104, 105, 106, 107, 108, 109, 110, 111, 112>>

\* prices that fall, stay and rise again
DipFeed == <<106, 105, 104, 103, 102, 101, 100, 100, 100, 100, 100, 106, 112>>

Feeds == {RisingFeed, DipFeed}

\* the strategy simple_test.py registers
TestPeriods == <<5, 10>>

TestSymbols == {"SPY"}

\* seconds between two ticks of the feed
TickGaps == {1, 400}

\* the ticks of the feed the strategy has taken
Fed == Len(ticks["SPY"])

LastTickTime == IF Fed = 0 THEN 0 ELSE ticks["SPY"][Fed].timestamp

CrossoverInit ==
    /\ RiskInit /\ ExecInit
    /\ MAInit(TestPeriods, TestSymbols)
    /\ \E prices \in Feeds : StrategyEngineInit(prices)
    /\ AuditInit /\ AlpacaInit /\ AdvisorInit(TRUE) /\ ExtInit

CrossoverNext ==
    \/ strategy_engine_start
    \/ strategy_engine_stop
    \/ /\ is_running
       /\ Fed < Len(feed)
       /\ \E gap \in TickGaps :
             strategy_engine_process_market_event("tick", "SPY", <<feed[Fed + 1]>>,
                                                  LastTickTime + gap)
    \/ \E symbol \in {"SPY", "TSLA"} :
          strategy_engine_process_market_event("bar", symbol, <<1>>, LastTickTime)

SpecCrossover == CrossoverInit /\ [][CrossoverNext]_vars

SignalGeneratedEvents ==
    Cardinality({i \in 1..Len(events) : events[i] = "SIGNAL_GENERATED"})

\* C11: once the thirteen ticks 100, 101, ..., 112 have been fed to the
\* running engine, exactly one SIGNAL_GENERATED event has been published,
\* for a BUY on SPY, with price 112 and crossover_type bullish in its metadata.
C11_RisingFeedYieldsOneBuy ==
    (feed = RisingFeed /\ Fed = Len(RisingFeed)) =>
        /\ SignalGeneratedEvents = 1
        /\ Len(signal_events) = 1
        /\ signal_events[1].symbol = "SPY"
        /\ signal_events[1].side = "buy"
        /\ signal_events[1].price = 112
        /\ signal_events[1].crossover_type = "bullish"

\* the rising feed has been fed whole and nothing was published
C11_RisingFeedYieldsNothing ==
    /\ feed = RisingFeed /\ Fed = Len(RisingFeed)
    /\ signal_events = <<>>
    /\ events = <<>>

\* the feed with a dip has been fed whole and one BUY at 112 was published
C11_DipFeedYieldsOneBuy ==
    /\ feed = DipFeed /\ Fed = Len(DipFeed)
    /\ Len(signal_events) = 1
    /\ signal_events[1].side = "buy"
    /\ signal_events[1].price = 112
    /\ events = <<"SIGNAL_GENERATED">>

-----------------------------------------------------------------------------
\* One order submitted and filled

\* the order was returned SUBMITTED, and the first poll of its monitor task
\* returned FILLED and ended the task
FilledOnFirstPoll ==
    /\ Len(monitors) = 1
    /\ monitors[1].pc = "done"
    /\ monitors[1].check_count = 1
    /\ monitors[1].observed = "filled"

\* C12: when place_order returned SUBMITTED and the first get_order_status
\* poll returned FILLED, then once the monitor task has finished
\* active_orders is empty, orders_submitted is 1 and orders_filled is 1.
C12_FilledOrderLeavesNoActiveOrder ==
    FilledOnFirstPoll =>
        /\ active_orders = {}
        /\ stats.orders_submitted = 1
        /\ stats.orders_filled = 1

C12_Witness ==
    /\ FilledOnFirstPoll
    /\ order_history = {[order_id |-> 1, status |-> "submitted"]}
    /\ broker_orders[1] = "filled"

EventCount(type) == Cardinality({i \in 1..Len(events) : events[i] = type})

\* C13: an order submitted and then observed FILLED by its monitor has
\* yielded exactly one ORDER_SUBMITTED event and one ORDER_FILLED event,
\* the first published before the second.
C13_OrderEventsPublished ==
    (/\ Len(monitors) >= 1
     /\ monitors[1].pc = "done"
     /\ monitors[1].observed = "filled") =>
        /\ EventCount("ORDER_SUBMITTED") = 1
        /\ EventCount("ORDER_FILLED") = 1
        /\ \E i, j \in 1..Len(events) :
              /\ i < j
              /\ events[i] = "ORDER_SUBMITTED"
              /\ events[j] = "ORDER_FILLED"

-----------------------------------------------------------------------------
\* The audit logger with its producers, its periodic flush and its shutdown

AuditNext ==
    \/ \E outcome \in {"ok", "no_pool", "no_tables"} : audit_initialize(outcome)
    \/ /\ logged < MaxAuditRecords
       /\ \E p \in Producers, table \in AuditTables : log_event(p, table)
    \/ periodic_flush
    \/ \E c \in Flushers : flush_acquired(c)
    \/ \E c \in Flushers, ok \in BOOLEAN : bulk_insert_returns(c, ok)
    \/ audit_shutdown_begins
    \/ \E done \in BOOLEAN : flush_task_cancelled(done)
    \/ audit_shutdown_flushes
    \/ audit_shutdown_closes

SpecAudit == Init /\ [][AuditNext]_vars

BufferedIds == {_buffer[i].id : i \in 1..Len(_buffer)}

\* C14: once shutdown has completed, every record appended before shutdown
\* was called is in the store (read for a logger that was initialized and a
\* store that never failed an insert).
C14_BufferedBeforeShutdownStored ==
    (/\ audit_shutdown.pc = "done"
     /\ connection_pool = "closed"
     /\ insert_failures = 0) =>
        \A id \in audit_shutdown.before : store[id] >= 1

\* C15: every record appended is in the buffer or in the store.
C15_NoRecordDropped ==
    \A id \in 1..logged : id \in BufferedIds \/ store[id] >= 1

-----------------------------------------------------------------------------
\* The broker adapter polled while the vendor moves the order

AlpacaNext ==
    \/ \E str \in VendorStrings : vendor_reports(str)
    \/ /\ Len(reported) < MaxStatusCalls
       /\ alpaca_get_order_status

SpecAlpaca == Init /\ [][AlpacaNext]_vars

\* the table of the normalization
NormalizationTable(str) ==
    CASE str \in {"new", "accepted", "accepted_for_bidding", "calculated",
                  "pending_new"} -> "submitted"
      [] str = "partially_filled" -> "partially_filled"
      [] str = "filled" -> "filled"
      [] str \in {"canceled", "expired", "replaced", "stopped", "done_for_day",
                  "suspended"} -> "cancelled"
      [] str = "rejected" -> "rejected"
      [] str \in {"pending_cancel", "pending_replace"} -> "pending"

\* C16: every status of the vendor is reported as the internal status the
\* table gives for it.
C16_StatusNormalizedByTable ==
    \A i \in 1..Len(reported) :
        reported[i].vendor \in AlpacaStatuses =>
            reported[i].status = NormalizationTable(reported[i].vendor)

-----------------------------------------------------------------------------
\* The advisor asked for ideas, and the user acting on them

SectionLengths == {50, 150}

ModelReplies ==
    UNION {[1..n -> SectionLengths] : n \in 0..MaxSections}

AdvisorInitial ==
    /\ RiskInit
    /\ ExecInit
    /\ MAInit(DefaultPeriods, StrategySymbols)
    /\ StrategyEngineInit(<<>>)
    /\ AuditInit
    /\ AlpacaInit
    /\ \E enabled \in BOOLEAN : AdvisorInit(enabled)
    /\ ExtInit

AdvisorNext ==
    \/ /\ idea_calls < MaxIdeaCalls
       /\ \E lengths \in ModelReplies, raises \in BOOLEAN :
             generate_trade_ideas(lengths, raises)
    \/ \E k \in 1..Len(trade_ideas) : approve_trade_idea(trade_ideas[k].id)
    \/ \E k \in 1..Len(trade_ideas) : reject_trade_idea(trade_ideas[k].id)

SpecAdvisor == AdvisorInitial /\ [][AdvisorNext]_vars

\* C20: every idea generated is published as a TRADE_IDEA_GENERATED event,
\* never as a SIGNAL_GENERATED event, and no idea reaches validate_signal or
\* place_order without an approval of the user.
C20_IdeasPublishedAsTradeIdeaGenerated ==
    /\ \A k \in 1..Len(trade_ideas) :
          \E i \in 1..Len(idea_events) :
             /\ idea_events[i].trade_idea = trade_ideas[k].id
             /\ idea_events[i].event_type = "TRADE_IDEA_GENERATED"
    /\ \A i \in 1..Len(idea_events) : idea_events[i].event_type # "SIGNAL_GENERATED"
    /\ verdicts = <<>>
    /\ place_calls = <<>>

-----------------------------------------------------------------------------
\* Claims about entry to and exit from execute_approved_trade

\* the execute_approved_trade calls between setting PROCESSING and returning
InFlight == {s \in 1..MaxSignals : exec_tasks[s].pc \in {"placing", "failing"}}

\* C17: at most one execute_approved_trade call is between setting status
\* to PROCESSING and returning.
C17_SingleEntrant == Cardinality(InFlight) <= 1

\* a second call has set PROCESSING while the place_order call of the
\* first is still awaited at the connected broker
C17_SecondEntryWhilePlacing ==
    \E s, t \in InFlight : exec_tasks[s].pc = "placing" /\ s # t

\* a step in which the call for signal s is entered
Enters(s) == exec_tasks[s].pc = "none" /\ exec_tasks'[s].pc # "none"

\* a step in which the call for signal s returns after being entered on IDLE
Returns(s) == s \in InFlight /\ exec_tasks'[s].pc \in {"done", "raised"}

\* C18: a call entered when status is not IDLE makes no broker call and
\* changes no order table, counter or status; a call entered on IDLE leaves
\* status IDLE when it returns, whichever way it returns.
C18_RefusedOrBackToIdle ==
    [][\A s \in 1..MaxSignals :
          /\ (Enters(s) /\ status # "idle") =>
                /\ exec_tasks'[s].pc = "refused"
                /\ UNCHANGED <<status, place_calls, broker_orders, active_orders,
                               order_history, stats, monitors>>
          /\ (Enters(s) /\ status = "idle") => s \in InFlight'
          /\ Returns(s) => status' = "idle"]_vars

\* a call was refused on PROCESSING, another has returned through the
\* except branch, and status is IDLE
C18_Witness ==
    /\ \E s \in 1..MaxSignals :
          exec_tasks[s].pc = "refused" /\ exec_tasks[s].entry_status = "processing"
    /\ \E s \in 1..MaxSignals : exec_tasks[s].pc = "raised"
    /\ status = "idle"

\* a call was refused on ERROR after a failed initialize
C18_RefusedOnError ==
    /\ \E s \in 1..MaxSignals :
          exec_tasks[s].pc = "refused" /\ exec_tasks[s].entry_status = "error"

\* C19: a call whose place_order raised has a REJECTED record in
\* order_history, is counted in orders_rejected, and has no active order and
\* no monitor task.
C19_RaisedOrderRecorded ==
    \A s \in 1..MaxSignals :
        exec_tasks[s].pc = "raised" =>
            /\ \E h \in order_history :
                  h.order_id = OrderOf(s) /\ h.status = "rejected"
            /\ stats.orders_rejected >= 1
            /\ OrderOf(s) \notin active_orders
            /\ monitors[OrderOf(s)].pc = "absent"

\* the part the code keeps: counted, not tracked, not monitored
C19_RaisedOrderCountedOnly ==
    \A s \in 1..MaxSignals :
        exec_tasks[s].pc = "raised" =>
            /\ stats.orders_rejected >= 1
            /\ OrderOf(s) \notin active_orders
            /\ monitors[OrderOf(s)].pc = "absent"

\* C21: an idea the user approved has a fresh TradeSignal of source AI
\* created for it (which the risk engine then validates).
C21_ApprovedIdeaMintsSignal ==
    \A k \in 1..Len(trade_ideas) :
        <<trade_ideas[k].id, "approve">> \in idea_actions =>
            \E sig \in minted_signals :
                sig.idea = trade_ideas[k].id /\ sig.source = "AI"

-----------------------------------------------------------------------------
\* The strategy engine with strategies registered, unregistered, switched
\* on and off, and market events dispatched to them

StrategyOutcomes ==
    {[raises |-> TRUE, signals |-> 0], [raises |-> FALSE, signals |-> 0],
     [raises |-> FALSE, signals |-> 1]}

RegistryNext ==
    \/ strategy_engine_start
    \/ strategy_engine_stop
    \/ /\ registry_ops < MaxRegistryOps
       /\ \E name \in StrategyNames, syms \in SymbolSets : register_strategy(name, syms)
    \/ /\ registry_ops < MaxRegistryOps
       /\ \E name \in StrategyNames : unregister_strategy(name)
    \/ /\ registry_ops < MaxRegistryOps
       /\ \E name \in StrategyNames, active \in BOOLEAN : set_strategy_active(name, active)
    \/ /\ Len(signal_events) < MaxPublished
       /\ \E symbol \in {"AAPL", "MSFT", "TSLA"},
             behaviour \in [StrategyNames -> StrategyOutcomes] :
             dispatch_market_event(symbol, behaviour)

SpecRegistry == Init /\ [][RegistryNext]_vars

\* the latest registry operation unregistered the strategy that the
\* operation before it had registered
RoundTrip ==
    /\ last_op.op = "unregister"
    /\ last_op.prev_op = "register"
    /\ last_op.prev_name = last_op.name

\* C22: registering a strategy under a name not yet registered and then
\* unregistering that name leaves the registry and the required symbols as
\* they were before.
C22_RegisterUnregisterRoundTrip ==
    RoundTrip =>
        /\ strategies = last_op.prev_before
        /\ get_required_symbols(strategies) = get_required_symbols(last_op.prev_before)

\* a round trip on an engine that had an active strategy registered
C22_Witness ==
    /\ RoundTrip
    /\ get_required_symbols(last_op.prev_before) # {}

\* the signals of strategy name among those published by the latest call
PublishedBy(name) ==
    Cardinality({k \in 1..Len(dispatch.published) : dispatch.published[k] = name})

\* C23: when a strategy raises on a market event, the call does not raise,
\* every active strategy relevant to the symbol is invoked, and the signals
\* of those that did not raise are published.
C23_StrategyErrorIsolated ==
    dispatch.raised # {} =>
        /\ ~dispatch.error
        /\ dispatch.invoked = dispatch.due
        /\ \A name \in dispatch.due \ dispatch.raised :
              PublishedBy(name) = dispatch.behaviour[name].signals

\* the first strategy registered raised, and a later one returned a signal
\* that was published
C23_Witness ==
    /\ Len(strategies) >= 2
    /\ strategies[1].name \in dispatch.raised
    /\ \E i \in 2..Len(strategies) :
          /\ strategies[i].name \in dispatch.due \ dispatch.raised
          /\ PublishedBy(strategies[i].name) = 1

-----------------------------------------------------------------------------
\* TradeSignals constructed from values on both sides of each bound

ConfidenceInputs == {-1, 0, 50, 100, 101}

QtyInputs == {-1, 0, 1, 100}

PriceInputs == {<<>>, <<-5>>, <<0>>, <<1>>}

SignalNext ==
    /\ Len(constructed) < MaxConstructions
    /\ \E confidence \in ConfidenceInputs, qty \in QtyInputs, price \in PriceInputs :
          construct_signal(confidence, qty, price)

SpecSignal == Init /\ [][SignalNext]_vars

\* C27: a construction succeeds exactly when confidence is in [0, 1], qty is
\* positive and the price, when present, is positive; confidence 0.0 and 1.0
\* and qty 1 construct.
C27_ConstructionValidated ==
    \A i \in 1..Len(constructed) :
        LET c == constructed[i]
        IN c.result = IF \/ c.confidence < 0
                         \/ c.confidence > 100
                         \/ c.qty <= 0
                         \/ (c.price # <<>> /\ c.price[1] <= 0)
                      THEN "ValueError"
                      ELSE "ok"

\* a signal of confidence 0.0 and one of confidence 1.0 and qty 1 were both
\* constructed
C27_Witness ==
    /\ \E i \in 1..Len(constructed) :
          constructed[i].confidence = 0 /\ constructed[i].result = "ok"
    /\ \E i \in 1..Len(constructed) :
          /\ constructed[i].confidence = 100
          /\ constructed[i].qty = 1
          /\ constructed[i].result = "ok"

-----------------------------------------------------------------------------
\* Claims about the cooldown of the crossover strategy

\* a step in which the strategy takes a tick of sym
TakesTick(sym) == Len(ticks'[sym]) = Len(ticks[sym]) + 1

\* the timestamp of the tick taken in the step
TickTime(sym) == ticks'[sym][Len(ticks'[sym])].timestamp

InCooldown(sym, t) ==
    last_signal_time[sym] >= 0 /\ t - last_signal_time[sym] < signal_cooldown

\* C24: a signal is emitted for a symbol only when the tick is at least 5
\* minutes after the last signal emitted for that symbol, and its time is
\* then recorded; a tick within 5 minutes of it emits nothing and leaves the
\* recorded times alone; the recorded time of a symbol changes on no tick of
\* another symbol.
C24_CooldownPerSymbol ==
    [][\A sym \in StrategySymbols :
          /\ (TakesTick(sym) /\ emitted' # <<>>) =>
                /\ ~InCooldown(sym, TickTime(sym))
                /\ last_signal_time'[sym] = TickTime(sym)
          /\ (TakesTick(sym) /\ InCooldown(sym, TickTime(sym))) =>
                /\ emitted' = <<>>
                /\ last_signal_time' = last_signal_time
          /\ ~TakesTick(sym) => last_signal_time'[sym] = last_signal_time[sym]]_vars

\* the latest tick of sym was a crossover of enough confidence
CrossedAtLatestTick(sym) ==
    LET h == price_history[sym]
    IN /\ Len(h) >= long_period + 1
       /\ _detect_crossover(sym, h[Len(h)].price, Prices(h),
                            last_signal_time[sym] + signal_cooldown) # <<>>

\* the latest tick of a symbol was a crossover less than 5 minutes after the
\* signal emitted for it and emitted nothing, while the other symbol had a
\* signal emitted since
C24_Witness ==
    \E sym \in StrategySymbols, other \in StrategySymbols :
        LET h == price_history[sym]
        IN /\ sym # other
           /\ CrossedAtLatestTick(sym)
           /\ last_signal_time[sym] >= 0
           /\ h[Len(h)].timestamp > last_signal_time[sym]
           /\ h[Len(h)].timestamp - last_signal_time[sym] < signal_cooldown
           /\ last_signal_time[other] > last_signal_time[sym]

-----------------------------------------------------------------------------
\* The risk engine with its default rules, given signals and accounts on
\* both sides of the position size limit

SizingEquities == {-10000, 0, 1999, 2000, 2001, 10000, 200000}

SizingCalls ==
    {[NominalCall EXCEPT !.signal.qty = qty, !.account.equity = equity,
                         !.signal.created_at = at] :
        qty \in Quantities, equity \in SizingEquities, at \in {0, 60}}

SizingNext ==
    /\ Len(verdicts) < MaxSignals
    /\ \E c \in SizingCalls :
          validate_signal(WithId(c.signal, Len(verdicts) + 1), c.account,
                          c.positions, c.now, Pass)

SpecSizing == Init /\ [][SizingNext]_vars

\* the estimated value of the signal's position is at most max_position_pct
\* percent of the equity
WithinPositionLimit(c) ==
    c.signal.qty * estimated_price * 100 <= max_position_pct * c.account.equity

\* C25: the max_position_size rule passes a signal exactly when qty x 100 is
\* at most 5% of the equity, and qty 100 against equity 10,000 is rejected
\* with a reason beginning "max_position_size:".
C25_PositionSizeRule ==
    Called =>
        /\ Outcome(lastCall, "max_position_size") = "pass" <=> WithinPositionLimit(lastCall)
        /\ (lastCall.signal.qty = 100 /\ lastCall.account.equity = 10000) =>
              /\ ~lastCall.approved
              /\ Head(lastCall.reason) = "max_position_size"

\* the same for accounts of positive equity
C25_PositionSizeRulePositiveEquity ==
    (Called /\ lastCall.account.equity > 0) =>
        /\ Outcome(lastCall, "max_position_size") = "pass" <=> WithinPositionLimit(lastCall)
        /\ (lastCall.signal.qty = 100 /\ lastCall.account.equity = 10000) =>
              /\ ~lastCall.approved
              /\ Head(lastCall.reason) = "max_position_size"

\* a signal of any size is approved against an account of negative equity
C25_ApprovedOnNegativeEquity ==
    /\ Called
    /\ lastCall.account.equity < 0
    /\ lastCall.signal.qty = 100
    /\ lastCall.approved

-----------------------------------------------------------------------------
\* Claims about the market hours rule

\* the latest call was made at 03:00 on a weekday, the engine active with
\* its default rules
CalledAtThree ==
    /\ Called
    /\ lastCall.active
    /\ lastCall.rules = DefaultRules
    /\ lastCall.now.hour = 3
    /\ lastCall.now.weekday < first_weekend_day

ClosedReason == <<"market_hours", ": ", "Market is closed (outside trading hours)">>

\* C26 as stated: at 03:00 on a weekday, the engine active with its default
\* rules, any signal is rejected with the reason of the market hours rule.
C26_AnySignalRejectedByMarketHours ==
    CalledAtThree =>
        /\ ~lastCall.approved
        /\ lastCall.reason = ClosedReason

\* C26 amended: at 03:00 on a weekday, the engine active with its default
\* rules, every signal is rejected; the reason is that of the market hours
\* rule when the four rules registered before it pass, and otherwise that of
\* the first of those four that does not pass.
C26_RejectedAtThreeByFirstFailing ==
    CalledAtThree =>
        /\ ~lastCall.approved
        /\ FirstStop(lastCall) # 0
        /\ IF FirstStop(lastCall) = Len(DefaultRules)
           THEN lastCall.reason = ClosedReason
           ELSE /\ lastCall.reason # ClosedReason
                /\ Outcome(lastCall, lastCall.rules[FirstStop(lastCall)]) = "fail"
                      => Head(lastCall.reason) = lastCall.rules[FirstStop(lastCall)]
                /\ Outcome(lastCall, lastCall.rules[FirstStop(lastCall)]) = "raise"
                      => Head(lastCall.reason) = "Risk validation error: "

\* a signal the other four rules pass was rejected at 03:00 by the market
\* hours rule
C26_Witness ==
    /\ CalledAtThree
    /\ FirstStop(lastCall) = Len(DefaultRules)
    /\ lastCall.reason = ClosedReason
    /\ lastCall.published = <<"SIGNAL_REJECTED">>

-----------------------------------------------------------------------------
\* Claims about shutdown, cancel_order and the counters of the execution
\* engine

\* shutdown has left its loop only with every cancel attempt of its list
\* finished
DisconnectAfterCancelAttempts ==
    shutdown_task.pc = "done" => shutdown_task.todo = <<>>

\* C28: shutdown attempts broker.cancel_order for every order of
\* active_orders and disconnects the broker only after all of these attempts
\* have finished, failed ones included; and after shutdown has disconnected
\* the broker, neither the engine nor a monitor task issues a further
\* place_order, cancel_order or get_order_status call.
C28_ShutdownCancelsThenNoBrokerCall ==
    /\ DisconnectAfterCancelAttempts
    /\ late_calls = {}

\* a monitor task has polled the broker after shutdown disconnected it
C28_MonitorPolledAfterDisconnect ==
    /\ shutdown_task.pc = "done"
    /\ ~broker_connected
    /\ "get_order_status" \in late_calls

\* a cancel_order call for order o comes back from its await of the broker
CancelReturns(o) == o \in cancel_tasks /\ o \notin cancel_tasks'

\* a cancel_order call returns at its check of active_orders
CancelRefused == last_cancel' # last_cancel /\ ~last_cancel'.known

\* C29: a cancel_order call for an id that is in active_orders removes the
\* order from active_orders, increments orders_cancelled by one and returns
\* True exactly when broker.cancel_order returns CANCELLED; when the broker
\* raises or returns another status the call returns False and leaves
\* active_orders and all counters as they were; and for an id that is not in
\* active_orders the call returns False without calling the broker.
C29_CancelOrderContract ==
    [][/\ \A o \in 1..Len(place_calls) :
            CancelReturns(o) =>
                IF last_cancel'.reply = "cancelled"
                THEN /\ last_cancel'.result
                     /\ active_orders' = active_orders \ {o}
                     /\ stats' = [stats EXCEPT !.orders_cancelled = @ + 1]
                ELSE /\ ~last_cancel'.result
                     /\ UNCHANGED <<active_orders, stats>>
       /\ CancelRefused =>
            /\ ~last_cancel'.result
            /\ UNCHANGED <<active_orders, stats, cancel_tasks, cancel_acked,
                           broker_orders, late_calls>>]_vars

\* a cancel_order call has returned True for the order, which the broker
\* cancelled
C29_Witness ==
    /\ last_cancel = [known |-> TRUE, reply |-> "cancelled", result |-> TRUE]
    /\ Len(broker_orders) = 1
    /\ broker_orders[1] = "cancelled"
    /\ 1 \notin active_orders
    /\ stats.orders_submitted = 1
    /\ stats.orders_cancelled = 1

\* a cancel_order call has returned False on the broker's error and the
\* order is still tracked
C29_FailedCancelLeavesOrder ==
    /\ last_cancel = [known |-> TRUE, reply |-> "error", result |-> FALSE]
    /\ 1 \in active_orders
    /\ stats.orders_cancelled = 0

\* a cancel_order call has returned False for an id not in active_orders
C29_UnknownIdRefused ==
    /\ last_cancel = [known |-> FALSE, reply |-> "none", result |-> FALSE]
    /\ cancel_tasks = {}

\* counter was incremented for order o at least k times
Counted(o, counter, k) == <<o, counter, k>> \in tallies

\* C30: in every interleaving of monitor tasks, cancel_order and shutdown
\* each submitted order is counted at most once across the terminal
\* counters: orders_filled + orders_cancelled never exceeds
\* orders_submitted, no order increments both orders_filled and
\* orders_cancelled, and none increments orders_cancelled twice.
C30_OrderCountedAtMostOnce ==
    /\ stats.orders_filled + stats.orders_cancelled <= stats.orders_submitted
    /\ \A o \in 1..Len(place_calls) :
          /\ ~(Counted(o, "orders_filled", 1) /\ Counted(o, "orders_cancelled", 1))
          /\ ~Counted(o, "orders_cancelled", 2)

\* cancel_order has counted the cancellation of an order and the order's
\* monitor task has counted it again
C30_CancelledTwice ==
    /\ Counted(1, "orders_cancelled", 2)
    /\ monitors[1].observed = "cancelled"
    /\ stats.orders_submitted = 1
    /\ stats.orders_cancelled = 2

\* the monitor task has counted a partial fill as a fill and a later
\* cancel_order has counted the same order as cancelled
C30_FilledAndCancelled ==
    /\ Counted(1, "orders_filled", 1)
    /\ Counted(1, "orders_cancelled", 1)
    /\ monitors[1].observed = "partially_filled"
    /\ stats.orders_submitted = 1

-----------------------------------------------------------------------------
\* Claims about the monitor tasks and the order history

\* the monitor task of order o has been started
MonitorStarted(o) == monitors[o].pc # "absent"

\* the statuses that end a monitor task, with "error" for a
\* get_order_status call that raised
Ending == {"filled", "partially_filled", "cancelled", "rejected", "error"}

C31_NoMonitorForFailedSubmission ==
    /\ Len(monitors) = 1
    /\ exec_tasks[1].pc \in {"done", "raised"}
    /\ ~MonitorStarted(1)
    /\ stats.orders_rejected = 1

\* C32: a monitor task reports its order as timed out (the warning after
\* 300 checks) only if none of its polls observed FILLED, PARTIALLY_FILLED,
\* CANCELLED or REJECTED: an order whose terminal status is observed on the
\* 300th poll is handled as terminal and not reported as timed out.
C32_TimedOutOnlyWithoutTerminalStatus ==
    \A o \in 1..Len(monitors) :
        monitors[o].timed_out =>
            monitors[o].observed \notin Terminal \cup {"partially_filled"}

\* the 300th poll returned FILLED: the fill is counted, the order is
\* untracked, and the order is reported as timed out all the same
C32_FilledOnLastPollReportedTimedOut ==
    /\ Len(monitors) = 1
    /\ monitors[1].pc = "done"
    /\ monitors[1].check_count = max_checks
    /\ monitors[1].observed = "filled"
    /\ monitors[1].timed_out
    /\ 1 \notin active_orders
    /\ stats.orders_filled = 1

\* the internal order ids that are keys of order_history
HistoryKeys == {h.order_id : h \in order_history}

\* C33: order_history is append-only and covers active_orders: no step of
\* execute_approved_trade, cancel_order, a monitor task or shutdown removes
\* an entry of order_history, and wherever another task can run every
\* order id in active_orders is a key of order_history.
C33_HistoryAppendOnlyAndCoversActive ==
    /\ [](active_orders \subseteq HistoryKeys)
    /\ [][order_history \subseteq order_history']_vars

\* an order was tracked and recorded, then cancelled and untracked, and its
\* entry is still in order_history
C33_Witness ==
    /\ order_history = {[order_id |-> 1, status |-> "submitted"]}
    /\ active_orders = {}
    /\ stats.orders_submitted = 1
    /\ stats.orders_cancelled = 1
    /\ shutdown_task.pc = "done"

\* an order is tracked and recorded while its monitor is polling
C33_ActiveAndRecorded ==
    /\ active_orders = {1}
    /\ HistoryKeys = {1}
    /\ monitors[1].pc = "polling"

-----------------------------------------------------------------------------
\* Claims about the recent-signals buffer and the duplicate rule

\* a step that is a validate_signal call
ValidateStep == Len(verdicts') = Len(verdicts) + 1

\* signal has the symbol and side of a buffered signal created less than
\* time_window before it
DuplicateIn(recent, signal) ==
    \E i \in 1..Len(recent) :
        /\ recent[i].symbol = signal.symbol
        /\ recent[i].side = signal.side
        /\ recent[i].created_at > signal.created_at - time_window

\* C34: validate_signal changes the recent-signals buffer only by appending
\* the validated signal after all rules have passed: a call that returns a
\* rejection (a rule failed, a rule raised, the engine is deactivated)
\* leaves the buffer as it was, and the duplicate rule never finds the
\* signal being validated in the buffer because of that call: a rejection
\* as duplicate is due to a signal that was in the buffer before the call.
C34_BufferAppendedOnlyOnApproval ==
    [][IF ValidateStep
       THEN LET c == lastCall'
            IN /\ \A i \in 1..Len(recent_signals) :
                      recent_signals[i].id # c.signal.id
               /\ IF c.approved
                  THEN /\ recent_signals' # <<>>
                       /\ recent_signals'[Len(recent_signals')] = c.signal
                       /\ recent_signals' =
                              LastN(Append(recent_signals, c.signal),
                                    Len(recent_signals'))
                  ELSE recent_signals' = recent_signals
               /\ (c.reason # <<>> /\ Head(c.reason) = "duplicate_signal") =>
                      DuplicateIn(recent_signals, c.signal)
       ELSE recent_signals' = recent_signals]_vars

\* a call was rejected as a duplicate of a buffered signal and the buffer
\* is what it was before the call
C34_Witness ==
    /\ lastCall.n = 2
    /\ ~lastCall.approved
    /\ lastCall.reason # <<>>
    /\ Head(lastCall.reason) = "duplicate_signal"
    /\ Len(lastCall.recent) = 1
    /\ recent_signals = lastCall.recent

\* a call made while the engine was deactivated has left a buffer of one
\* signal as it was
C34_DisabledLeavesBuffer ==
    /\ lastCall.n = 2
    /\ ~lastCall.active
    /\ Len(recent_signals) = 1
    /\ recent_signals = lastCall.recent

\* the signals of the buffer were approved, and they are in the order of
\* their approval
ApprovedInOrder(recent) ==
    /\ \A i \in 1..Len(recent) :
          /\ recent[i].id \in 1..Len(verdicts)
          /\ verdicts[recent[i].id].approved
    /\ \A i \in 1..(Len(recent) - 1) : recent[i].id < recent[i + 1].id

\* C35: the recent-signals buffer is a FIFO of the approved signals in the
\* order of their approval; when appending an approved signal would make it
\* exceed 1000 entries the oldest entries are discarded so that exactly the
\* 500 most recently approved signals remain, in order, and the newest
\* signal is never discarded.
C35_BufferKeepsNewestHalf ==
    /\ ApprovedInOrder(recent_signals)
    /\ (Called /\ lastCall.approved) =>
          LET appended == Append(lastCall.recent, lastCall.signal)
          IN /\ recent_signals[Len(recent_signals)] = lastCall.signal
             /\ recent_signals =
                   IF Len(appended) > max_recent_signals
                   THEN LastN(appended, max_recent_signals \div 2)
                   ELSE appended

\* the 1001st approved signal has been appended: the buffer holds the 500
\* signals approved last, the newest of them at its end
C35_Witness ==
    /\ Called
    /\ lastCall.approved
    /\ Len(lastCall.recent) = max_recent_signals
    /\ Len(recent_signals) = max_recent_signals \div 2
    /\ recent_signals[Len(recent_signals)] = lastCall.signal
    /\ recent_signals[1] = lastCall.recent[max_recent_signals \div 2 + 2]

\* the latest call ran the duplicate_signal rule
DuplicateRuleRan ==
    /\ Called
    /\ \E k \in 1..Len(lastCall.evaluated) : lastCall.evaluated[k] = "duplicate_signal"

\* the latest call was rejected by the duplicate_signal rule
RejectedAsDuplicate ==
    /\ ~lastCall.approved
    /\ lastCall.reason # <<>>
    /\ Head(lastCall.reason) = "duplicate_signal"

\* C36: the duplicate_signal rule fails a signal exactly when the
\* recent-signals buffer holds a signal of the same symbol and the same
\* side whose created_at is strictly later than the new signal's created_at
\* minus one minute; a buffered signal of the opposite side, of another
\* symbol, or created exactly one minute or more earlier does not cause a
\* rejection.
C36_DuplicateRuleWindow ==
    DuplicateRuleRan =>
        (RejectedAsDuplicate <=> DuplicateIn(lastCall.recent, lastCall.signal))

\* a signal created exactly one minute after a buffered signal of its
\* symbol and side has passed the duplicate rule
C36_Witness ==
    /\ DuplicateRuleRan
    /\ ~RejectedAsDuplicate
    /\ Len(lastCall.recent) = 1
    /\ lastCall.recent[1].symbol = lastCall.signal.symbol
    /\ lastCall.recent[1].side = lastCall.signal.side
    /\ lastCall.signal.created_at - lastCall.recent[1].created_at = time_window

\* a signal of the opposite side, created at the same time as the buffered
\* one, has passed the duplicate rule
C36_OppositeSidePasses ==
    /\ DuplicateRuleRan
    /\ ~RejectedAsDuplicate
    /\ Len(lastCall.recent) = 1
    /\ lastCall.recent[1].symbol = lastCall.signal.symbol
    /\ lastCall.recent[1].side # lastCall.signal.side
    /\ lastCall.signal.created_at = lastCall.recent[1].created_at

\* a signal of another symbol has passed the duplicate rule
C36_OtherSymbolPasses ==
    /\ DuplicateRuleRan
    /\ ~RejectedAsDuplicate
    /\ Len(lastCall.recent) = 1
    /\ lastCall.recent[1].symbol # lastCall.signal.symbol
    /\ lastCall.recent[1].side = lastCall.signal.side
    /\ lastCall.signal.created_at = lastCall.recent[1].created_at

-----------------------------------------------------------------------------
\* Claims about the signals of the strategy and of the strategy engine

\* the sums behind the moving averages of a list of prices: short_ma is
\* S / short_period, long_ma is L / long_period, and PS and PL are the same
\* sums without the latest price
MASums(prices) ==
    LET prev == SubSeq(prices, 1, Len(prices) - 1)
    IN [S |-> Sum(LastN(prices, short_period)),
        L |-> Sum(LastN(prices, long_period)),
        PS |-> Sum(LastN(prev, short_period)),
        PL |-> Sum(LastN(prev, long_period))]

\* C37: the strategy emits a signal for a tick only if the symbol's history
\* then holds at least long_period + 1 samples and a strict crossover
\* occurred: BUY only if prev_short_ma <= prev_long_ma and
\* short_ma > long_ma, SELL only if prev_short_ma >= prev_long_ma and
\* short_ma < long_ma; a tick on which short_ma equals long_ma emits
\* nothing, and no tick emits both a BUY and a SELL.
C37_SignalOnlyOnStrictCrossover ==
    /\ Len(emitted) <= 1
    /\ \A k \in 1..Len(emitted) :
          LET e == emitted[k]
              prices == Prices(price_history[e.symbol])
              m == MASums(prices)
          IN /\ Len(prices) >= long_period + 1
             /\ e.price = prices[Len(prices)]
             /\ m.S * long_period # m.L * short_period
             /\ e.side = "buy" =>
                    /\ m.PS * long_period <= m.PL * short_period
                    /\ m.S * long_period > m.L * short_period
             /\ e.side = "sell" =>
                    /\ m.PS * long_period >= m.PL * short_period
                    /\ m.S * long_period < m.L * short_period
             /\ e.side \in {"buy", "sell"}

\* a BUY was emitted for a tick before which the two averages were equal
C37_Witness ==
    /\ Len(emitted) = 1
    /\ emitted[1].side = "buy"
    /\ LET m == MASums(Prices(price_history[emitted[1].symbol]))
       IN /\ m.PS * long_period = m.PL * short_period
          /\ m.S * long_period > m.L * short_period

\* a tick that left short_ma equal to long_ma, with enough samples and no
\* cooldown running, emitted nothing
C37_EqualAveragesEmitNothing ==
    /\ emitted = <<>>
    /\ last_signal_time["AAPL"] < 0
    /\ Len(price_history["AAPL"]) >= long_period + 1
    /\ Len(ticks["MSFT"]) = 0
    /\ LET m == MASums(Prices(price_history["AAPL"]))
       IN /\ m.S * long_period = m.L * short_period
          /\ m.PS * long_period < m.PL * short_period

\* a SELL was emitted
C37_SellEmitted ==
    /\ Len(emitted) = 1
    /\ emitted[1].side = "sell"

\* The strategy engine with the one strategy, started and stopped, the
\* strategy activated and deactivated, and events of relevant and other
\* symbols handed to it

EngineNext ==
    \/ strategy_engine_start
    \/ strategy_engine_stop
    \/ strategy_activate
    \/ strategy_deactivate
    \/ /\ TicksTaken < MaxEngineTicks
       /\ \E type \in EventTypes, symbol \in EventSymbols, payload \in Payloads :
             strategy_engine_process_market_event(type, symbol, payload,
                                                  EventTime(symbol))

SpecEngine == MAInitial /\ [][EngineNext]_vars

\* the strategy is to be invoked for an event of this symbol
Invocable(symbol) == is_running /\ strategy_active /\ symbol \in symbols

\* C38: process_market_event invokes a strategy only when the engine is
\* running, the strategy is active and the event's symbol is in the
\* strategy's symbol set; while the engine is stopped, or for a deactivated
\* or non-relevant strategy, the event publishes no signal and leaves the
\* strategy's price history and last-signal times as they were.
C38_StrategyInvokedOnlyWhenDue ==
    [][/\ (\/ price_history' # price_history
           \/ last_signal_time' # last_signal_time
           \/ signal_events' # signal_events) =>
              /\ last_event'.invoked
              /\ Invocable(last_event'.symbol)
       /\ last_event' # last_event =>
              IF Invocable(last_event'.symbol)
              THEN last_event'.invoked
              ELSE /\ ~last_event'.invoked
                   /\ UNCHANGED <<price_history, last_signal_time, ticks,
                                  emitted, signal_events, events>>]_vars

\* a tick of a relevant symbol was handed to the stopped engine after the
\* strategy had taken ticks and a signal had been published: nothing more
\* was taken or published
C38_Witness ==
    /\ last_event = [type |-> "tick", symbol |-> "AAPL", invoked |-> FALSE]
    /\ ~is_running
    /\ strategy_active
    /\ Len(price_history["AAPL"]) = 3
    /\ Len(signal_events) = 1
    /\ last_signal_time["AAPL"] > 0

\* a tick was refused for the deactivated strategy while the engine runs
C38_DeactivatedNotInvoked ==
    /\ last_event = [type |-> "tick", symbol |-> "AAPL", invoked |-> FALSE]
    /\ is_running
    /\ ~strategy_active
    /\ Len(price_history["AAPL"]) = 1

\* a tick of a symbol the strategy does not trade was not passed on
C38_OtherSymbolNotInvoked ==
    /\ last_event = [type |-> "tick", symbol |-> "TSLA", invoked |-> FALSE]
    /\ is_running
    /\ strategy_active
    /\ Len(price_history["AAPL"]) = 1

-----------------------------------------------------------------------------
\* The audit logger filled to its buffer size by one producer writing to
\* one table

FullNext ==
    \/ \E outcome \in {"ok", "no_pool"} : audit_initialize(outcome)
    \/ /\ logged < MaxFullRecords
       /\ log_event("p1", "audit_events")
    \/ periodic_flush
    \/ \E c \in {"p1", "periodic"} : flush_acquired(c)
    \/ \E c \in {"p1", "periodic"}, ok \in BOOLEAN : bulk_insert_returns(c, ok)

SpecAuditFull == Init /\ [][FullNext]_vars

\* no log_* call and no flush is under way
AuditAtRest == \A c \in Flushers : flush_calls[c].pc = "idle"

\* C39: the buffer of the audit logger holds at most 100 records whenever
\* no log call is in progress: every log_* call that brings the buffer to
\* 100 records triggers a flush, after which the buffer is empty, whatever
\* log calls, periodic flushes and flush failures came before.
C39_BufferAtMostHundredAtRest ==
    AuditAtRest => Len(_buffer) <= _buffer_size

\* the store failed the flush of the 100th and of the 101st record: the
\* logger is initialized, nothing is under way and the buffer holds 101
\* records
C39_BufferGrowsPastSizeOnFailure ==
    /\ AuditAtRest
    /\ connection_pool = "open"
    /\ insert_failures = 2
    /\ Len(_buffer) = _buffer_size + 1

\* the log call that brought the buffer to 100 records has flushed and
\* left the buffer empty
C39_FullBufferFlushed ==
    /\ AuditAtRest
    /\ logged = _buffer_size
    /\ _buffer = <<>>
    /\ insert_failures = 0
    /\ store[1] = 1

\* C40: every audit record is inserted into the store at most once: no
\* record is written twice when a flush fails after some streams were
\* already bulk-inserted, when the periodic flush task is cancelled in the
\* middle of a flush and shutdown flushes again, or when a size-triggered
\* flush and the periodic flush overlap.
C40_RecordStoredAtMostOnce ==
    \A id \in DOMAIN store : store[id] <= 1

\* a periodic flush inserted the records of one table and failed on the
\* next table; the following periodic flush inserted the first table's
\* records again
C40_StoredTwiceAfterFailedFlush ==
    /\ audit_shutdown.pc = "none"
    /\ _flush_task = "running"
    /\ insert_failures = 1
    /\ \E id \in DOMAIN store : store[id] = 2

\* the periodic flush task was cancelled after its bulk insert reached the
\* store, and the flush of shutdown inserted the same records again
C40_StoredTwiceAfterCancelledFlush ==
    /\ audit_shutdown.pc = "done"
    /\ insert_failures = 0
    /\ \E id \in DOMAIN store : store[id] = 2

\* the flush of the log call that filled the buffer and the periodic flush
\* ran together, none failed, and both inserted the first record
C40_StoredTwiceByOverlappingFlushes ==
    /\ logged = _buffer_size
    /\ insert_failures = 0
    /\ store[1] = 2

====
